---------------------------- MODULE Spec2Model ----------------------------
(***************************************************************************)
(* Model of the safety-gating hooks of the System2 plugin:                 *)
(*   plugin/hooks/_hook_utils.py                                           *)
(*   plugin/hooks/dangerous-command-blocker.py                             *)
(*   plugin/hooks/sensitive-file-protector.py                              *)
(*                                                                         *)
(* Strings of the program are TLA+ strings; the character at position i of *)
(* s is SubSeq(s, i, i).  Positions are 1-based; a span <<b, e>> covers    *)
(* the characters b .. e-1 (Python's span (b-1, e-1)).                     *)
(***************************************************************************)
EXTENDS Integers, Sequences, FiniteSets, TLC

(***************************************************************************)
(* Character classes of Python's re module (str patterns), restricted to  *)
(* ASCII.                                                                  *)
(***************************************************************************)
LowerLetters == "abcdefghijklmnopqrstuvwxyz"
UpperLetters == "ABCDEFGHIJKLMNOPQRSTUVWXYZ"
DigitChars == "0123456789"

CharsOf(str) == {SubSeq(str, i, i) : i \in 1..Len(str)}

\* [a-zA-Z]
AZaz == CharsOf(LowerLetters) \cup CharsOf(UpperLetters)
\* \w
WordChars == AZaz \cup CharsOf(DigitChars) \cup {"_"}
\* \s, and the characters str.strip() removes
Whitespace == {" ", "\t", "\n", "\r", "\f"}

\* str.lower() of one character
LowerChar(c) ==
    IF c \in CharsOf(UpperLetters)
    THEN LET i == CHOOSE k \in 1..Len(UpperLetters) : SubSeq(UpperLetters, k, k) = c
         IN SubSeq(LowerLetters, i, i)
    ELSE c

RECURSIVE LowerStr(_)
LowerStr(str) ==
    IF str = "" THEN ""
    ELSE LowerChar(SubSeq(str, 1, 1)) \o LowerStr(SubSeq(str, 2, Len(str)))

(***************************************************************************)
(* Regular expressions as syntax trees, and the backtracking matcher of   *)
(* re: M(re, s, i) is the sequence of end positions of the matches of re   *)
(* that start at position i of s, in the order the backtracking engine     *)
(* tries them (greedy repetition first, alternatives left to right).       *)
(***************************************************************************)
Eps == [t |-> "eps"]
Lit(w) == [t |-> "lit", w |-> w]
\* a literal under re.IGNORECASE
LitI(w) == [t |-> "liti", w |-> LowerStr(w)]
Chr(S) == [t |-> "set", s |-> S]
NotChr(S) == [t |-> "nset", s |-> S]
Cat(rs) == [t |-> "cat", rs |-> rs]
Alt(rs) == [t |-> "alt", rs |-> rs]
Star(r) == [t |-> "star", r |-> r]
Plus(r) == Cat(<<r, Star(r)>>)
Opt(r) == Alt(<<r, Eps>>)
\* (?:(?!q)[^\\]|\\.)*
Escaped(q) == [t |-> "escaped", q |-> q]
\* \b
WordB == [t |-> "wb"]
\* ^ and $ ; ml is re.MULTILINE
Bol(ml) == [t |-> "bol", ml |-> ml]
Eol(ml) == [t |-> "eol", ml |-> ml]

\* dict.fromkeys(xs) as a list: first occurrences, order kept
RECURSIVE DedupFrom(_, _, _)
DedupFrom(xs, k, acc) ==
    IF k > Len(xs) THEN acc
    ELSE IF \E j \in 1..Len(acc) : acc[j] = xs[k]
         THEN DedupFrom(xs, k + 1, acc)
         ELSE DedupFrom(xs, k + 1, Append(acc, xs[k]))

\* what dict.fromkeys is not: every element kept (C8 fails of it)
KeepAll(xs) == xs

Dedup(xs) == DedupFrom(xs, 1, <<>>)

MinOf(S) == CHOOSE m \in S : \A n \in S : m <= n
MaxOf(S) == CHOOSE m \in S : \A n \in S : m >= n

CharAt(s, i) == SubSeq(s, i, i)

IsWordAt(s, i) == i >= 1 /\ i <= Len(s) /\ CharAt(s, i) \in WordChars

\* one character of s at position i is in the class of the node cls
InClass(cls, s, i) ==
    /\ i <= Len(s)
    /\ IF cls.t = "set" THEN CharAt(s, i) \in cls.s ELSE CharAt(s, i) \notin cls.s

RECURSIVE M(_, _, _)
RECURSIVE MCat(_, _, _, _)
RECURSIVE MCatEach(_, _, _, _, _, _)
RECURSIVE MAlt(_, _, _, _)
RECURSIVE MStarEach(_, _, _, _, _, _)

\* the matches of r* continued from each of the end positions js[lo..hi] of
\* one more r (those that consumed something), in order
MStarEach(r, s, i, js, lo, hi) ==
    IF lo > hi THEN <<>>
    ELSE IF lo = hi
         THEN (IF js[lo] > i THEN M(Star(r), s, js[lo]) ELSE <<>>)
         ELSE LET mid == (lo + hi) \div 2
              IN MStarEach(r, s, i, js, lo, mid) \o MStarEach(r, s, i, js, mid + 1, hi)

MAlt(rs, k, s, i) ==
    IF k > Len(rs) THEN <<>>
    ELSE M(rs[k], s, i) \o MAlt(rs, k + 1, s, i)

\* the matches of rs[k..] continued from each of the end positions js[lo..hi]
MCatEach(rs, k, s, js, lo, hi) ==
    IF lo > hi THEN <<>>
    ELSE IF lo = hi THEN MCat(rs, k, s, js[lo])
         ELSE LET mid == (lo + hi) \div 2
              IN MCatEach(rs, k, s, js, lo, mid) \o MCatEach(rs, k, s, js, mid + 1, hi)

MCat(rs, k, s, i) ==
    IF k > Len(rs) THEN <<i>>
    ELSE LET js == M(rs[k], s, i)
         IN MCatEach(rs, k + 1, s, js, 1, Len(js))

M(re, s, i) ==
    CASE re.t = "eps" -> <<i>>
      [] re.t = "lit" ->
            IF i + Len(re.w) - 1 <= Len(s) /\ SubSeq(s, i, i + Len(re.w) - 1) = re.w
            THEN <<i + Len(re.w)>> ELSE <<>>
      [] re.t = "liti" ->
            IF i + Len(re.w) - 1 <= Len(s)
               /\ LowerStr(SubSeq(s, i, i + Len(re.w) - 1)) = re.w
            THEN <<i + Len(re.w)>> ELSE <<>>
      [] re.t \in {"set", "nset"} ->
            IF InClass(re, s, i) THEN <<i + 1>> ELSE <<>>
      [] re.t = "cat" -> MCat(re.rs, 1, s, i)
      [] re.t = "alt" -> MAlt(re.rs, 1, s, i)
      [] re.t = "star" ->
            IF re.r.t \in {"set", "nset"}
            THEN \* a greedy run of one character class: the longest run
                 \* first, then each shorter one
                 LET e == MinOf({j \in i..Len(s) : ~InClass(re.r, s, j)}
                                \cup {Len(s) + 1})
                 IN [k \in 1..(e - i + 1) |-> e - k + 1]
            ELSE LET js == M(re.r, s, i)
                 IN MStarEach(re.r, s, i, js, 1, Len(js)) \o <<i>>
      [] re.t = "escaped" ->
            \* (?:(?!q)[^\\]|\\.)* : a run of items, each one character that is
            \* neither q nor a backslash, or a backslash and the character it
            \* escapes.  j starts an item iff the backslashes just before j
            \* (from i on) are even in number; the run stops at the first
            \* item start e that starts no item.  The longest run first.
            LET Backslashes(j) ==
                    MaxOf({n \in 0..(j - i) :
                              \A t \in 1..n : CharAt(s, j - t) = "\\"})
                ItemStart(j) == Backslashes(j) % 2 = 0
                NoItem(j) ==
                    \/ j > Len(s)
                    \/ CharAt(s, j) = re.q
                    \/ CharAt(s, j) = "\\" /\ (j = Len(s) \/ CharAt(s, j + 1) = "\n")
                e == MinOf({j \in i..(Len(s) + 1) : ItemStart(j) /\ NoItem(j)})
                ends == {j \in i..e : ItemStart(j)}
            IN IF i > Len(s) + 1 THEN <<>>
               ELSE [k \in 1..Cardinality(ends) |->
                        CHOOSE j \in ends : Cardinality({x \in ends : x > j}) = k - 1]
      [] re.t = "wb" ->
            IF IsWordAt(s, i - 1) # IsWordAt(s, i) THEN <<i>> ELSE <<>>
      [] re.t = "bol" ->
            IF i = 1 \/ (re.ml /\ CharAt(s, i - 1) = "\n") THEN <<i>> ELSE <<>>
      [] re.t = "eol" ->
            IF \/ i = Len(s) + 1
               \/ (i = Len(s) /\ CharAt(s, i) = "\n")
               \/ (re.ml /\ i <= Len(s) /\ CharAt(s, i) = "\n")
            THEN <<i>> ELSE <<>>

\* "no match" (None)
NoMatch == <<0, 0>>

\* the span of the first match tried at position lo, whose matches end at
\* the positions ends
SpanAt(lo, ends) == IF ends # <<>> THEN <<lo, ends[1]>> ELSE NoMatch

\* the span of the leftmost match that starts at one of the positions lo..hi
RECURSIVE SearchIn(_, _, _, _)
SearchIn(re, s, lo, hi) ==
    IF lo > hi THEN NoMatch
    ELSE IF lo = hi THEN SpanAt(lo, M(re, s, lo))
         ELSE LET mid == (lo + hi) \div 2
                  left == SearchIn(re, s, lo, mid)
              IN IF left # NoMatch THEN left ELSE SearchIn(re, s, mid + 1, hi)

\* pattern.search(s, pos): the span of the leftmost match starting at or
\* after position i, or NoMatch
SearchFrom(re, s, i) == SearchIn(re, s, i, Len(s) + 1)

Search(re, s) == SearchFrom(re, s, 1)

\* pattern.finditer(s): the spans of the successive non-overlapping matches
RECURSIVE FindIterFrom(_, _, _)
RECURSIVE FindIterAfter(_, _, _)

\* the match m and the matches after it: the scan resumes at the end of m,
\* one further on after an empty match
FindIterAfter(re, s, m) ==
    IF m = NoMatch THEN <<>>
    ELSE <<m>> \o FindIterFrom(re, s, IF m[2] > m[1] THEN m[2] ELSE m[2] + 1)

FindIterFrom(re, s, i) == FindIterAfter(re, s, SearchFrom(re, s, i))

FindIter(re, s) == FindIterFrom(re, s, 1)

(***************************************************************************)
(* str methods                                                             *)
(***************************************************************************)
StartsWith(s, p) == Len(s) >= Len(p) /\ SubSeq(s, 1, Len(p)) = p

LStrip(s) ==
    LET keep == {i \in 1..Len(s) : CharAt(s, i) \notin Whitespace}
    IN IF keep = {} THEN "" ELSE SubSeq(s, MinOf(keep), Len(s))

RStrip(s) ==
    LET keep == {i \in 1..Len(s) : CharAt(s, i) \notin Whitespace}
    IN IF keep = {} THEN "" ELSE SubSeq(s, 1, MaxOf(keep))

Strip(s) == LStrip(RStrip(s))

\* re.split on one character of the set seps: the pieces between them,
\* empty pieces included
SplitOn(s, seps) ==
    LET cuts == {i \in 1..Len(s) : CharAt(s, i) \in seps}
        \* the k-th cut position; 0 before the first, Len(s)+1 after the last
        Cut(k) == IF k = 0 THEN 0
                  ELSE IF k > Cardinality(cuts) THEN Len(s) + 1
                  ELSE CHOOSE c \in cuts : Cardinality({d \in cuts : d <= c}) = k
    IN [k \in 1..(Cardinality(cuts) + 1) |-> SubSeq(s, Cut(k - 1) + 1, Cut(k) - 1)]

(***************************************************************************)
(* dangerous-command-blocker.py: the danger signatures                     *)
(***************************************************************************)
Letters0 == Star(Chr(AZaz))
Sp1 == Plus(Chr(Whitespace))
Sp0 == Star(Chr(Whitespace))
\* [^|;&]* and [^;|&]*
NoSep0 == Star(NotChr({"|", ";", "&"}))

\* -[a-zA-Z]*<a>[a-zA-Z]*<b>[a-zA-Z]*
FlagsBoth(a, b) == Cat(<<Lit("-"), Letters0, Lit(a), Letters0, Lit(b), Letters0>>)
\* -[a-zA-Z]*<a>[a-zA-Z]*
FlagsOne(a) == Cat(<<Lit("-"), Letters0, Lit(a), Letters0>>)

RM_RF_FLAGS ==
    Alt(<< FlagsBoth("r", "f"),
           FlagsBoth("f", "r"),
           Cat(<<Lit("-r"), Sp1, Lit("-f")>>),
           Cat(<<Lit("-f"), Sp1, Lit("-r")>>),
           Cat(<<FlagsOne("r"), Sp1, FlagsOne("f")>>),
           Cat(<<FlagsOne("f"), Sp1, FlagsOne("r")>>),
           Cat(<<Lit("--recursive"), Sp1, Lit("--force")>>),
           Cat(<<Lit("--force"), Sp1, Lit("--recursive")>>),
           Cat(<<Lit("--recursive"), Sp1, Lit("-f")>>),
           Cat(<<Lit("-f"), Sp1, Lit("--recursive")>>),
           Cat(<<Lit("-r"), Sp1, Lit("--force")>>),
           Cat(<<Lit("--force"), Sp1, Lit("-r")>>),
           Cat(<<Lit("--recursive"), NoSep0, Lit("-f")>>),
           Cat(<<Lit("-f"), NoSep0, Lit("--recursive")>>),
           Cat(<<Lit("-r"), NoSep0, Lit("--force")>>),
           Cat(<<Lit("--force"), NoSep0, Lit("-r")>> ) >>)

\* ($|;|\||&) under re.MULTILINE
EndOrSep == Alt(<<Eol(TRUE), Lit(";"), Lit("|"), Lit("&")>>)
\* (?:\s|$|;|\||&) under re.MULTILINE
SpaceEndOrSep == Alt(<<Chr(Whitespace), Eol(TRUE), Lit(";"), Lit("|"), Lit("&")>>)
\* what the branch test is not: one that knows main only (C16 fails of it)
MainOnly == Cat(<<WordB, Lit("main"), WordB>>)
\* \b(main|master)\b
MainOrMaster == Cat(<<WordB, Alt(<<Lit("main"), Lit("master")>>), WordB>>)
\* --force(-with-lease)?
ForceLong == Cat(<<Lit("--force"), Opt(Lit("-with-lease"))>>)
\* \bgit\s+push\s+
GitPush == Cat(<<WordB, Lit("git"), Sp1, Lit("push"), Sp1>>)
\* \brm\s+ _RM_RF_FLAGS
RmRf == Cat(<<WordB, Lit("rm"), Sp1, RM_RF_FLAGS>>)

DANGER_PATTERNS ==
    << [re |-> Cat(<<RmRf, Sp0, Alt(<<Lit("/"), Lit("/*")>>), Sp0, EndOrSep>>),
        reason |-> "rm -rf targeting root filesystem (/) is extremely dangerous"],
       [re |-> Cat(<<RmRf, Sp0, Lit("."), Opt(Lit("/")), SpaceEndOrSep>>),
        reason |-> "rm -rf targeting current directory (.) could delete critical files"],
       [re |-> Cat(<<RmRf, Sp0, Lit(".."), Opt(Lit("/")), SpaceEndOrSep>>),
        reason |-> "rm -rf targeting parent directory (..) could delete critical files"],
       [re |-> Cat(<<WordB, Lit("sudo"), Sp1, Lit("rm"), Sp1, RM_RF_FLAGS, Sp1>>),
        reason |-> "sudo rm -rf with elevated privileges is extremely dangerous"],
       [re |-> Cat(<<WordB, Lit("chmod"), Sp1,
                     Opt(Cat(<<Star(NotChr({"\n"})), Sp1>>)), Lit("777"), Sp1>>),
        reason |-> "chmod 777 makes files world-writable and executable, a security risk"],
       [re |-> Cat(<<WordB, Lit("git"), Sp1, Lit("reset"), Sp1, Lit("--hard"), WordB>>),
        reason |-> "git reset --hard discards uncommitted changes permanently"],
       [re |-> Cat(<<GitPush, NoSep0, ForceLong, NoSep0, MainOrMaster>>),
        reason |-> "git push --force to main/master can destroy shared commit history"],
       [re |-> Cat(<<GitPush, NoSep0, MainOrMaster, NoSep0, ForceLong>>),
        reason |-> "git push --force to main/master can destroy shared commit history"],
       [re |-> Cat(<<GitPush, NoSep0, Lit("-f"), Sp1, NoSep0, MainOrMaster>>),
        reason |-> "git push -f to main/master can destroy shared commit history"],
       [re |-> Cat(<<GitPush, NoSep0, MainOrMaster, NoSep0, Sp1, Lit("-f"), WordB>>),
        reason |-> "git push -f to main/master can destroy shared commit history"],
       [re |-> Cat(<<WordB, LitI("DROP"), Sp1, LitI("TABLE"), WordB>>),
        reason |-> "DROP TABLE would permanently delete database table and its data"],
       [re |-> Cat(<<WordB, LitI("DELETE"), Sp1, LitI("FROM"), Sp1,
                     Plus(Chr(WordChars)), Sp0,
                     Alt(<<Eol(TRUE), Lit(";"), Lit("|")>>)>>),
        reason |-> "DELETE FROM without WHERE clause would delete all rows in the table"] >>

\* (["'])(?:(?!\1)[^\\]|\\.)*\1 : the back-reference is resolved by the
\* opening quote, which gives one alternative per quote character
QuotedBy(q) == Cat(<<Lit(q), Escaped(q), Lit(q)>>)

QUOTED_STRING_PATTERN == Alt(<<QuotedBy("\""), QuotedBy("'")>>)

\* (echo|printf)\s*$
EchoTail == Cat(<<Alt(<<Lit("echo"), Lit("printf")>>), Sp0, Eol(FALSE)>>)

\* the match span lies in region q of the quoted regions
SpanInside(span, q) == q[1] <= span[1] /\ span[2] <= q[2]

\* lines 170-191: the match lies in one of the quoted regions, and some
\* region that holds it follows echo or printf
InEchoedRegion(command, match_span, quoted_regions) ==
    LET match_in_quotes ==
            \E k \in 1..Len(quoted_regions) : SpanInside(match_span, quoted_regions[k])
    IN IF ~match_in_quotes THEN FALSE
       ELSE \E k \in 1..Len(quoted_regions) :
               /\ SpanInside(match_span, quoted_regions[k])
               /\ LET prefix == SubSeq(command, 1, quoted_regions[k][1] - 1)
                      prefix_stripped == RStrip(prefix)
                  IN Search(EchoTail, prefix_stripped) # NoMatch

is_echo_or_print_only(command, match_span) ==
    InEchoedRegion(command, match_span, FindIter(QUOTED_STRING_PATTERN, command))

\* one test of check_dangerous_pattern: signature p fires on string str
\* lines 212-214: the pattern's match, when there is one, is no echoed literal
Unsuppressed(str, match) == match # NoMatch /\ ~is_echo_or_print_only(str, match)

Fires(p, str) == Unsuppressed(str, Search(DANGER_PATTERNS[p].re, str))

NotDangerous == [dangerous |-> FALSE, reason |-> "", sig |-> 0, at |-> 0]

\* the inner loop over the segments, from segment k on: the index of the
\* first trimmed non-empty segment on which signature p fires, or 0
RECURSIVE SegmentLoop(_, _, _)
SegmentLoop(p, segments, k) ==
    IF k > Len(segments) THEN 0
    ELSE LET segment == Strip(segments[k])
         IN IF segment = "" THEN SegmentLoop(p, segments, k + 1)
            ELSE IF Fires(p, segment) THEN k
            ELSE SegmentLoop(p, segments, k + 1)

\* what the loops are not: the full command tested against every signature
\* before any segment is (C7 fails of it)
FullCommandFirst(command, segments, p) ==
    LET full == {q \in p..Len(DANGER_PATTERNS) : Fires(q, command)}
        seg == {q \in p..Len(DANGER_PATTERNS) : SegmentLoop(q, segments, 1) # 0}
    IN IF full # {}
       THEN [dangerous |-> TRUE, reason |-> DANGER_PATTERNS[MinOf(full)].reason,
             sig |-> MinOf(full), at |-> 0]
       ELSE IF seg # {}
       THEN [dangerous |-> TRUE, reason |-> DANGER_PATTERNS[MinOf(seg)].reason,
             sig |-> MinOf(seg), at |-> SegmentLoop(MinOf(seg), segments, 1)]
       ELSE NotDangerous

\* the outer loop over DANGER_PATTERNS, from signature p on.  sig and at
\* record where the loop returned: the signature, and 0 for the full
\* command or k for the k-th segment.
RECURSIVE PatternLoop(_, _, _)
PatternLoop(command, segments, p) ==
    IF p > Len(DANGER_PATTERNS) THEN NotDangerous
    ELSE IF Fires(p, command)
         THEN [dangerous |-> TRUE, reason |-> DANGER_PATTERNS[p].reason,
               sig |-> p, at |-> 0]
         ELSE LET k == SegmentLoop(p, segments, 1)
              IN IF k # 0
                 THEN [dangerous |-> TRUE, reason |-> DANGER_PATTERNS[p].reason,
                       sig |-> p, at |-> k]
                 ELSE PatternLoop(command, segments, p + 1)

check_dangerous_pattern(command) ==
    PatternLoop(command, SplitOn(command, {"|", ";", "&"}), 1)

(***************************************************************************)
(* os.path (posixpath) and the file system it reads                        *)
(***************************************************************************)

\* os.environ["HOME"]
HomeEnv == "/home/u"

\* the password database: pwd.getpwnam(name).pw_dir
Passwd == [name \in {"root"} |-> "/root"]

\* the symbolic links of the file system: os.readlink(path)
Symlinks ==
    [link \in {"/w/key", "/w/d", "/w/loop"} |->
        CASE link = "/w/key" -> "/home/u/.ssh/id_rsa"
          [] link = "/w/d" -> "a"
          [] link = "/w/loop" -> "loop"]

EndsWith(s, p) == Len(s) >= Len(p) /\ SubSeq(s, Len(s) - Len(p) + 1, Len(s)) = p

\* "/".join(comps)
RECURSIVE JoinComps(_)
JoinComps(comps) ==
    IF comps = <<>> THEN ""
    ELSE IF Len(comps) = 1 THEN comps[1]
    ELSE comps[1] \o "/" \o JoinComps(Tail(comps))

\* the components of path that are not empty: [x for x in path.split("/") if x]
NonEmptyComps(path) == SelectSeq(SplitOn(path, {"/"}), LAMBDA x : x # "")

isabs(path) == StartsWith(path, "/")

\* os.path.join(a, b)
PathJoin(a, b) ==
    IF StartsWith(b, "/") THEN b
    ELSE IF a = "" \/ EndsWith(a, "/") THEN a \o b
    ELSE a \o "/" \o b

\* os.path.split(p): <<head, tail>>
PathSplit(p) ==
    LET slashes == {i \in 1..Len(p) : CharAt(p, i) = "/"}
        i == IF slashes = {} THEN 0 ELSE MaxOf(slashes)
        head == SubSeq(p, 1, i)
        tail == SubSeq(p, i + 1, Len(p))
        \* head.rstrip("/") unless head is all slashes
        keep == {k \in 1..Len(head) : CharAt(head, k) # "/"}
    IN <<IF keep = {} THEN head ELSE SubSeq(head, 1, MaxOf(keep)), tail>>

\* the loop of normpath over the components
RECURSIVE NormComps(_, _, _, _)
NormComps(comps, k, new_comps, initial_slashes) ==
    IF k > Len(comps) THEN new_comps
    ELSE LET comp == comps[k]
         IN IF comp \in {"", "."} THEN NormComps(comps, k + 1, new_comps, initial_slashes)
            ELSE IF \/ comp # ".."
                    \/ (initial_slashes = 0 /\ new_comps = <<>>)
                    \/ (new_comps # <<>> /\ new_comps[Len(new_comps)] = "..")
                 THEN NormComps(comps, k + 1, Append(new_comps, comp), initial_slashes)
            ELSE IF new_comps # <<>>
                 THEN NormComps(comps, k + 1, SubSeq(new_comps, 1, Len(new_comps) - 1),
                                initial_slashes)
            ELSE NormComps(comps, k + 1, new_comps, initial_slashes)

normpath(path) ==
    IF path = "" THEN "."
    ELSE LET initial_slashes ==
                 IF ~StartsWith(path, "/") THEN 0
                 ELSE IF StartsWith(path, "//") /\ ~StartsWith(path, "///") THEN 2
                 ELSE 1
             joined == JoinComps(NormComps(SplitOn(path, {"/"}), 1, <<>>, initial_slashes))
             result == (IF initial_slashes = 2 THEN "//"
                        ELSE IF initial_slashes = 1 THEN "/" ELSE "") \o joined
         IN IF result = "" THEN "." ELSE result

abspath(path, cwd) == normpath(IF isabs(path) THEN path ELSE PathJoin(cwd, path))

\* the length of the common prefix of two lists
CommonPrefixLen(xs, ys) ==
    LET m == IF Len(xs) < Len(ys) THEN Len(xs) ELSE Len(ys)
    IN MaxOf({n \in 0..m : \A k \in 1..n : xs[k] = ys[k]})

\* os.path.relpath(path, os.getcwd()); path is not empty
relpath(path, cwd) ==
    LET start_list == NonEmptyComps(abspath(cwd, cwd))
        path_list == NonEmptyComps(abspath(path, cwd))
        i == CommonPrefixLen(start_list, path_list)
        rel_list == [k \in 1..(Len(start_list) - i) |-> ".."]
                    \o SubSeq(path_list, i + 1, Len(path_list))
    IN IF rel_list = <<>> THEN "." ELSE JoinComps(rel_list)

\* s.rstrip("/")
RStripSlash(s) ==
    LET keep == {k \in 1..Len(s) : CharAt(s, k) # "/"}
    IN IF keep = {} THEN "" ELSE SubSeq(s, 1, MaxOf(keep))

\* os.path.expanduser(path)
expanduser(path) ==
    IF ~StartsWith(path, "~") THEN path
    ELSE LET slashes == {k \in 2..Len(path) : CharAt(path, k) = "/"}
             i == IF slashes = {} THEN Len(path) + 1 ELSE MinOf(slashes)
             name == SubSeq(path, 2, i - 1)
             known == i = 2 \/ name \in DOMAIN Passwd
             userhome == RStripSlash(IF i = 2 THEN HomeEnv ELSE Passwd[name])
             expanded == userhome \o SubSeq(path, i, Len(path))
         IN IF ~known THEN path
            ELSE IF expanded = "" THEN "/" ELSE expanded

\* os.lstat(path) finds a symbolic link
IsLink(path, cwd) == abspath(path, cwd) \in DOMAIN Symlinks

\* posixpath._joinrealpath(path, rest, strict=False, seen): [path, ok, seen];
\* seen maps a link to its resolution, "" while it is being resolved
RECURSIVE JoinRealPath(_, _, _, _)
RECURSIVE RealPathLoop(_, _, _, _)

\* the while loop of _joinrealpath over the components of rest
RealPathLoop(path, rest1, seen, cwd) ==
    IF rest1 = "" THEN [path |-> path, ok |-> TRUE, seen |-> seen]
    ELSE LET slashes == {k \in 1..Len(rest1) : CharAt(rest1, k) = "/"}
             cut == IF slashes = {} THEN Len(rest1) + 1 ELSE MinOf(slashes)
             name == SubSeq(rest1, 1, cut - 1)
             rest == SubSeq(rest1, cut + 1, Len(rest1))
             newpath == PathJoin(path, name)
         IN IF name \in {"", "."} THEN RealPathLoop(path, rest, seen, cwd)
            ELSE IF name = ".."
                 THEN IF path # ""
                      THEN LET sp == PathSplit(path)
                           IN RealPathLoop(IF sp[2] = ".."
                                           THEN PathJoin(PathJoin(sp[1], ".."), "..")
                                           ELSE sp[1],
                                           rest, seen, cwd)
                      ELSE RealPathLoop("..", rest, seen, cwd)
            ELSE IF ~IsLink(newpath, cwd) THEN RealPathLoop(newpath, rest, seen, cwd)
            ELSE IF newpath \in DOMAIN seen /\ seen[newpath] # ""
                 THEN \* resolved before
                      RealPathLoop(seen[newpath], rest, seen, cwd)
            ELSE IF newpath \in DOMAIN seen
                 THEN \* a loop of links
                      [path |-> PathJoin(newpath, rest), ok |-> FALSE, seen |-> seen]
            ELSE LET target == Symlinks[abspath(newpath, cwd)]
                     r == JoinRealPath(path, target, (newpath :> "") @@ seen, cwd)
                 IN IF ~r.ok
                    THEN [path |-> PathJoin(r.path, rest), ok |-> FALSE, seen |-> r.seen]
                    ELSE RealPathLoop(r.path, rest, (newpath :> r.path) @@ r.seen, cwd)

JoinRealPath(path, rest, seen, cwd) ==
    IF isabs(rest)
    THEN RealPathLoop("/", SubSeq(rest, 2, Len(rest)), seen, cwd)
    ELSE RealPathLoop(path, rest, seen, cwd)

\* what realpath is not: the path as it was given (C9 fails of it)
realpath_unresolved(filename, dir) == filename

\* os.path.realpath(filename)
realpath(filename, cwd) ==
    abspath(JoinRealPath("", filename, <<>>, cwd).path, cwd)

(***************************************************************************)
(* _hook_utils.normalize_path                                              *)
(***************************************************************************)
normalize_path(path, cwd) ==
    LET c1 == <<path>>
        c2 == IF StartsWith(path, "./") THEN <<SubSeq(path, 3, Len(path))>> ELSE <<>>
        c3 == IF isabs(path) THEN <<relpath(path, cwd)>> ELSE <<>>
        expanded == expanduser(path)
        c4 == IF StartsWith(path, "~") THEN <<expanded, relpath(expanded, cwd)>> ELSE <<>>
        real_path == realpath(path, cwd)
        c5 == IF real_path # path THEN <<real_path>> ELSE <<>>
    IN Dedup(c1 \o c2 \o c3 \o c4 \o c5)

(***************************************************************************)
(* sensitive-file-protector.py: the sensitivity signatures                 *)
(***************************************************************************)
\* (^|/|\\)
SepBefore == Alt(<<Bol(FALSE), Lit("/"), Lit("\\")>>)
\* (/|\\|$)
SepAfter == Alt(<<Lit("/"), Lit("\\"), Eol(FALSE)>>)
\* (^|/|\\)<name>$
FileNamed(name) == Cat(<<SepBefore, Lit(name), Eol(FALSE)>>)
\* (^|/|\\)<name>(/|\\|$)
DirNamed(name) == Cat(<<SepBefore, Lit(name), SepAfter>>)

SENSITIVE_PATTERNS ==
    << [re |-> FileNamed(".env"), description |-> "Environment file (.env)"],
       [re |-> Cat(<<SepBefore, Lit(".env."), Plus(Chr(WordChars \cup {"-"})), Eol(FALSE)>>),
        description |-> "Environment file (.env.*)"],
       [re |-> DirNamed(".ssh"), description |-> "SSH directory (~/.ssh/)"],
       [re |-> DirNamed(".aws"), description |-> "AWS credentials directory (~/.aws/)"],
       [re |-> DirNamed(".gnupg"), description |-> "GPG directory (~/.gnupg/)"],
       [re |-> LitI("credentials"), description |-> "File containing 'credentials'"],
       [re |-> LitI("secrets"), description |-> "File containing 'secrets'"],
       [re |-> Cat(<<LitI(".pem"), Eol(FALSE)>>),
        description |-> "PEM certificate/key file (*.pem)"],
       [re |-> Cat(<<LitI(".key"), Eol(FALSE)>>), description |-> "Key file (*.key)"],
       [re |-> FileNamed("id_rsa"), description |-> "RSA private key (id_rsa)"],
       [re |-> FileNamed("id_ed25519"), description |-> "Ed25519 private key (id_ed25519)"],
       [re |-> FileNamed("id_ecdsa"), description |-> "ECDSA private key (id_ecdsa)"],
       [re |-> FileNamed(".netrc"), description |-> "Netrc credentials file (.netrc)"],
       [re |-> FileNamed(".npmrc"),
        description |-> "NPM config file (.npmrc) - may contain tokens"],
       [re |-> FileNamed(".pypirc"),
        description |-> "PyPI config file (.pypirc) - may contain tokens"] >>

(***************************************************************************)
(* shlex.split(command): posix mode, whitespace_split, no comments.        *)
(* state is " " (between tokens), "a" (in a word), a quote character or    *)
(* "\\" (after an escape character).  The result is [ok, tokens]; ok =     *)
(* FALSE is ValueError (no closing quotation, no escaped character).       *)
(***************************************************************************)
ShlexWhitespace == {" ", "\t", "\r", "\n"}
ShlexQuotes == {"'", "\""}

RECURSIVE ShlexRead(_, _, _, _, _, _, _)
ShlexRead(s, i, state, escapedstate, token, quoted, tokens) ==
    LET eof == i > Len(s)
        nextchar == CharAt(s, i)
        \* read_token returns: the token is kept unless it is empty and unquoted
        Emit == IF token = "" /\ ~quoted THEN tokens ELSE Append(tokens, token)
    IN IF state = " "
       THEN IF eof THEN [ok |-> TRUE, tokens |-> Emit]
            ELSE IF nextchar \in ShlexWhitespace
                 THEN IF token # "" \/ quoted
                      THEN ShlexRead(s, i + 1, " ", " ", "", FALSE, Emit)
                      ELSE ShlexRead(s, i + 1, " ", escapedstate, token, quoted, tokens)
            ELSE IF nextchar = "\\"
                 THEN ShlexRead(s, i + 1, "\\", "a", token, quoted, tokens)
            ELSE IF nextchar \in ShlexQuotes
                 THEN ShlexRead(s, i + 1, nextchar, escapedstate, token, quoted, tokens)
            ELSE ShlexRead(s, i + 1, "a", escapedstate, nextchar, quoted, tokens)
       ELSE IF state \in ShlexQuotes
       THEN IF eof THEN [ok |-> FALSE, tokens |-> <<>>]
            ELSE IF nextchar = state
                 THEN ShlexRead(s, i + 1, "a", escapedstate, token, TRUE, tokens)
            ELSE IF nextchar = "\\" /\ state = "\""
                 THEN ShlexRead(s, i + 1, "\\", state, token, TRUE, tokens)
            ELSE ShlexRead(s, i + 1, state, escapedstate, token \o nextchar, TRUE, tokens)
       ELSE IF state = "\\"
       THEN IF eof THEN [ok |-> FALSE, tokens |-> <<>>]
            ELSE ShlexRead(s, i + 1, escapedstate, escapedstate,
                           (IF escapedstate \in ShlexQuotes /\ nextchar # "\\"
                               /\ nextchar # escapedstate
                            THEN token \o "\\" ELSE token) \o nextchar,
                           quoted, tokens)
       ELSE \* state = "a"
            IF eof THEN [ok |-> TRUE, tokens |-> Emit]
            ELSE IF nextchar \in ShlexWhitespace
                 THEN IF token # "" \/ quoted
                      THEN ShlexRead(s, i + 1, " ", " ", "", FALSE, Emit)
                      ELSE ShlexRead(s, i + 1, " ", escapedstate, token, quoted, tokens)
            ELSE IF nextchar \in ShlexQuotes
                 THEN ShlexRead(s, i + 1, nextchar, escapedstate, token, quoted, tokens)
            ELSE IF nextchar = "\\"
                 THEN ShlexRead(s, i + 1, "\\", "a", token, quoted, tokens)
            ELSE ShlexRead(s, i + 1, "a", escapedstate, token \o nextchar, quoted, tokens)

shlex_split(s) == ShlexRead(s, 1, " ", " ", "", FALSE, <<>>)

\* str.split(): the maximal runs of characters that are not whitespace
str_split(s) == SelectSeq(SplitOn(s, Whitespace), LAMBDA x : x # "")

MatchesSensitive(str) ==
    \E p \in 1..Len(SENSITIVE_PATTERNS) : Search(SENSITIVE_PATTERNS[p].re, str) # NoMatch

\* what the test is not: one that lets the flags through (C25 fails of it)
LooksLikePathOrFlag(token) ==
    \/ \E i \in 1..Len(token) : CharAt(token, i) \in {"/", "\\"}
    \/ StartsWith(token, "~")
    \/ StartsWith(token, ".")
    \/ StartsWith(token, "$")
    \/ MatchesSensitive(token)

\* the test of one token in extract_paths_from_bash_command
LooksLikePath(token) ==
    /\ ~StartsWith(token, "-")
    /\ \/ \E i \in 1..Len(token) : CharAt(token, i) \in {"/", "\\"}
       \/ StartsWith(token, "~")
       \/ StartsWith(token, ".")
       \/ StartsWith(token, "$")
       \/ MatchesSensitive(token)

extract_paths_from_bash_command(cmd) ==
    LET lexed == shlex_split(cmd)
        tokens == IF lexed.ok THEN lexed.tokens ELSE str_split(cmd)
    IN SelectSeq(tokens, LooksLikePath)

(***************************************************************************)
(* sensitive-file-protector.py: classification of one path                 *)
(***************************************************************************)
\* the candidates of both classifiers: normalize_path(path), and for a path
\* that starts with ~ the expanded path and its real path
SensitiveCandidates(path, cwd) ==
    LET expanded == expanduser(path)
        real_expanded == realpath(expanded, cwd)
    IN normalize_path(path, cwd)
       \o (IF StartsWith(path, "~")
           THEN <<expanded>> \o (IF real_expanded # expanded THEN <<real_expanded>> ELSE <<>>)
           ELSE <<>>)

NotSensitive == [sensitive |-> FALSE, reason |-> "", cand |-> 0, pat |-> 0]

\* for pattern, description in patterns: if pattern.search(candidate): the
\* index of the first pattern the inner loop stops at, or 0
FirstPattern(patterns, candidate) ==
    LET hits == {p \in 1..Len(patterns) : Search(patterns[p].re, candidate) # NoMatch}
    IN IF hits = {} THEN 0 ELSE MinOf(hits)

\* what the loops are not: the patterns in the outer loop and the candidates
\* in the inner one (C23 fails of it)
PatternMajor(candidates, patterns, c) ==
    LET hits == {p \in 1..Len(patterns) :
                    \E k \in c..Len(candidates) : Search(patterns[p].re, candidates[k]) # NoMatch}
    IN IF hits = {} THEN NotSensitive
       ELSE [sensitive |-> TRUE, reason |-> patterns[MinOf(hits)].description,
             cand |-> MinOf({k \in c..Len(candidates) :
                                Search(patterns[MinOf(hits)].re, candidates[k]) # NoMatch}),
             pat |-> MinOf(hits)]

\* for candidate in candidates: the inner loop for each candidate from
\* candidate c on, until one returns.  cand and pat record the pair the
\* loops returned at.
RECURSIVE MatchLoop(_, _, _)
MatchLoop(candidates, patterns, c) ==
    IF c > Len(candidates) THEN NotSensitive
    ELSE LET p == FirstPattern(patterns, candidates[c])
         IN IF p # 0
            THEN [sensitive |-> TRUE, reason |-> patterns[p].description,
                  cand |-> c, pat |-> p]
            ELSE MatchLoop(candidates, patterns, c + 1)

check_sensitive_path(path, cwd) ==
    MatchLoop(SensitiveCandidates(path, cwd), SENSITIVE_PATTERNS, 1)

\* what the classifier is not: one that never consults the additional
\* patterns (C5 fails of it)
check_builtin_only(path, patterns, dir) == check_sensitive_path(path, dir)

\* what the classifier is not: one that consults the additional patterns
\* first and the built-in signatures after them (C15 fails of it)
ExtraFirst(builtin, candidates, additional_patterns) ==
    IF additional_patterns # <<>> /\ MatchLoop(candidates, additional_patterns, 1).sensitive
    THEN MatchLoop(candidates, additional_patterns, 1)
    ELSE builtin

\* lines 186-204: the additional patterns, consulted when the built-in
\* check found nothing.  additional_patterns = <<>> is None
OrAdditional(builtin, candidates, additional_patterns) ==
    IF builtin.sensitive THEN builtin
    ELSE IF additional_patterns # <<>>
         THEN MatchLoop(candidates, additional_patterns, 1)
    ELSE NotSensitive

check_sensitive_path_with_additional(path, additional_patterns, cwd) ==
    OrAdditional(check_sensitive_path(path, cwd), SensitiveCandidates(path, cwd),
                 additional_patterns)

(***************************************************************************)
(* _hook_utils.collect_paths                                               *)
(***************************************************************************)
PATH_KEYS == {"file_path", "filepath", "path", "target_file", "filename", "file"}

RECURSIVE collect_paths(_)
RECURSIVE CollectItems(_, _, _)

\* the loop over the items of a mapping or a list, from item k on
CollectItems(value, k, results) ==
    IF k > Len(value.items) THEN results
    ELSE LET key == value.items[k].k
             item == value.items[k].v
         IN IF value.t = "map" /\ item.t = "str" /\ LowerStr(key) \in PATH_KEYS
            THEN CollectItems(value, k + 1, Append(results, item.s))
            ELSE CollectItems(value, k + 1, results \o collect_paths(item))

\* what collect_paths is not: a walk of the top level only (C10 fails of it)
collect_top_level(value) ==
    IF value.t = "map"
    THEN LET hits == SelectSeq(value.items,
                               LAMBDA it : it.v.t = "str" /\ LowerStr(it.k) \in PATH_KEYS)
         IN [k \in 1..Len(hits) |-> hits[k].v.s]
    ELSE <<>>

\* the strings the call appends to results
collect_paths(value) ==
    IF value.t \in {"map", "list"} THEN CollectItems(value, 1, <<>>) ELSE <<>>

(***************************************************************************)
(* The host's side of one invocation: the command line, the environment    *)
(* and the files the command line may name.                                *)
(***************************************************************************)

\* re.compile(source) for the pattern sources that occur in the pattern
\* files below; "invalid" stands for re.error
Invalid == [t |-> "invalid"]

Compile(source) ==
    CASE source = "^rm -rf /tmp/.*" ->
            Cat(<<Bol(FALSE), Lit("rm -rf /tmp/"), Star(NotChr({"\n"}))>>)
      [] source = "git reset --hard" -> Lit("git reset --hard")
      [] source = "^ls$" -> Cat(<<Bol(FALSE), Lit("ls"), Eol(FALSE)>>)
      [] source = "\\.secret$" -> Cat(<<Lit(".secret"), Eol(FALSE)>>)
      [] source = "^build/" -> Cat(<<Bol(FALSE), Lit("build/")>>)
      [] source = "notes" -> Lit("notes")
      [] source = "\\.txt$" -> Cat(<<Lit(".txt"), Eol(FALSE)>>)
      [] OTHER -> Invalid

\* the files a pattern-file argument may name: kind is "missing" (open
\* raises FileNotFoundError), "unreadable" (open raises another OSError: a
\* directory, no permission), "undecodable" (reading raises
\* UnicodeDecodeError: the bytes are not UTF-8) or "file", with its lines
Files ==
    [name \in {"missing.txt", "locked.txt", "empty.txt", "bad.txt", "tmp.txt",
               "two.txt", "mixed.txt", "extra.txt", "blob.bin"} |->
        CASE name = "missing.txt" -> [kind |-> "missing", lines |-> <<>>]
          [] name = "locked.txt" -> [kind |-> "unreadable", lines |-> <<>>]
          [] name = "blob.bin" -> [kind |-> "undecodable", lines |-> <<>>]
          [] name = "empty.txt" -> [kind |-> "file", lines |-> <<"# no patterns", "", "   ">>]
          [] name = "bad.txt" -> [kind |-> "file", lines |-> <<"(">>]
          [] name = "tmp.txt" ->
                [kind |-> "file", lines |-> <<"# temporary files", "^rm -rf /tmp/.*">>]
          [] name = "two.txt" ->
                [kind |-> "file", lines |-> <<"^ls$", "", "  git reset --hard  ">>]
          [] name = "mixed.txt" ->
                [kind |-> "file", lines |-> <<"notes", "(", "# keys", "\\.secret$">>]
          [] name = "extra.txt" ->
                [kind |-> "file", lines |-> <<"^build/", "  \\.txt$ ", "\\.secret$">>]]

FileNames == DOMAIN Files

\* what the filter of load_patterns is not: one that drops the blank lines
\* only and counts a # comment as a pattern (C11 fails of it)
RECURSIVE CommentsCounted(_, _)
CommentsCounted(lines, k) ==
    IF k > Len(lines) THEN <<>>
    ELSE IF Strip(lines[k]) = "" THEN CommentsCounted(lines, k + 1)
    ELSE <<Strip(lines[k])>> \o CommentsCounted(lines, k + 1)

\* the lines of a pattern file that count as patterns: trimmed, and neither
\* empty nor a # comment
RECURSIVE EffectiveLines(_, _)
EffectiveLines(lines, k) ==
    IF k > Len(lines) THEN <<>>
    ELSE LET stripped == Strip(lines[k])
         IN IF stripped = "" \/ StartsWith(stripped, "#")
            THEN EffectiveLines(lines, k + 1)
            ELSE <<stripped>> \o EffectiveLines(lines, k + 1)

\* how load_patterns ends without a pattern: the exception that leaves it,
\* the status of sys.exit and the diagnostic printed before it
Raises(exception) == [outcome |-> exception, re |-> Invalid, code |-> 0, err |-> ""]
SysExit(code, err) == [outcome |-> "SystemExit", re |-> Invalid, code |-> code, err |-> err]

\* _hook_utils.load_patterns on the file f: outcome is "ok" with the
\* compiled pattern re, or the exception that leaves the function
load_patterns_of(f) ==
    LET patterns == EffectiveLines(f.lines, 1)
        compiled == [k \in 1..Len(patterns) |-> Compile(patterns[k])]
        \* "|".join("(?:p)" ...) is a valid regex only if every p is
        combined == IF Len(patterns) = 1 THEN compiled[1] ELSE Alt(compiled)
    IN IF f.kind = "missing" THEN Raises("FileNotFoundError")
       ELSE IF f.kind = "unreadable" THEN Raises("OSError")
       ELSE IF f.kind = "undecodable" THEN Raises("UnicodeDecodeError")
       ELSE IF patterns = <<>> THEN SysExit(1, "pattern file has no patterns")
       ELSE IF \E k \in 1..Len(compiled) : compiled[k] = Invalid
            THEN SysExit(1, "invalid regex in pattern file")
       ELSE [outcome |-> "ok", re |-> combined, code |-> 0, err |-> ""]

load_patterns(file_path) == load_patterns_of(Files[file_path])

(***************************************************************************)
(* JSON values of TOOL_INPUT.  A mapping keeps its items in order.         *)
(***************************************************************************)
JStr(str) == [t |-> "str", s |-> str, items |-> <<>>]
JNum(n) == [t |-> "num", s |-> "", items |-> <<>>, n |-> n]
JNull == [t |-> "null", s |-> "", items |-> <<>>]
JList(vs) == [t |-> "list", s |-> "", items |-> [k \in 1..Len(vs) |-> [k |-> "", v |-> vs[k]]]]
\* kvs: a sequence of <<key, value>>
JMap(kvs) == [t |-> "map", s |-> "", items |-> [k \in 1..Len(kvs) |-> [k |-> kvs[k][1], v |-> kvs[k][2]]]]

\* bool(value)
Truthy(v) ==
    CASE v.t = "str" -> v.s # ""
      [] v.t = "num" -> v.n # 0
      [] v.t = "null" -> FALSE
      [] OTHER -> v.items # <<>>

\* dict.get(key, default)
DictGet(map, key, default) ==
    IF \E k \in 1..Len(map.items) : map.items[k].k = key
    THEN map.items[CHOOSE k \in 1..Len(map.items) : map.items[k].k = key].v
    ELSE default

(***************************************************************************)
(* One invocation of a hook as a state machine.                            *)
(***************************************************************************)
VARIABLES
    hook,               \* the script that runs (HOOK_NAME)
    argv,               \* sys.argv[1:]
    env_TOOL_NAME,      \* os.environ: [set, val]
    env_TOOL_INPUT,     \* os.environ: [set, json, val]; json is how json.loads ends
    pc,                 \* the statement main() is at
    tool_name,          \* main's locals
    payload,
    command,
    allowlist_arg,
    allowlist_pattern,  \* [loaded, re]; loaded = FALSE is None
    cwd,                \* os.getcwd()
    additional_patterns,\* sensitive-file-protector: <<>> is None
    paths_to_check,
    idx,                \* the position of the loop over paths_to_check
    arg,                \* a function called on its own: its argument
    result,             \* and what it returned
    exit_code,          \* the process exit status; Running until it exits
    stdout,             \* what was printed to sys.stdout
    stderr,             \* what was printed to sys.stderr
    checked,            \* the number of danger / sensitivity classifications made, or
                        \* of external tools started
    host,               \* what is outside the process: the file system, PATH and
                        \* what subprocess.run does, [exists, which, run]
    files               \* the YAML files update-system2-yaml.py reads and writes

vars == <<hook, argv, env_TOOL_NAME, env_TOOL_INPUT, pc, tool_name, payload, command,
          allowlist_arg, allowlist_pattern, cwd, additional_patterns, paths_to_check,
          idx, arg, result, exit_code, stdout, stderr, checked, host, files>>

inputs == <<hook, argv, env_TOOL_NAME, env_TOOL_INPUT, cwd, arg, result, host, files>>
dcb_locals == <<allowlist_arg, allowlist_pattern>>
sfp_locals == <<additional_patterns, paths_to_check, idx>>

Running == 0 - 1
\* the hooks that start no subprocess and look at no file but the pattern files
NoHost == [exists |-> FALSE, which |-> {}, run |-> [kind |-> "none"]]
NoFiles == <<>>
NoPattern == [loaded |-> FALSE, re |-> Invalid]
BlockObject(reason) == [decision |-> "block", reason |-> reason]

\* sys.exit(code), after printing out to stdout and err to stderr
Exit(code, out, err) ==
    /\ exit_code' = code
    /\ stdout' = stdout \o out
    /\ stderr' = stderr \o err
    /\ pc' = "exited"

\* an exception nobody catches: the interpreter prints the traceback to
\* stderr and exits with status 1
Uncaught(exception) == Exit(1, <<>>, <<"Traceback: " \o exception>>)

\* the statement goes on to the next one
Goto(label, err) ==
    /\ pc' = label
    /\ stderr' = stderr \o err
    /\ UNCHANGED <<exit_code, stdout>>

(***************************************************************************)
(* dangerous-command-blocker.py: main                                      *)
(***************************************************************************)
DCB == "dangerous-command-blocker"

IsHelpFlag(word) == word \in {"-h", "--help"}
\* an argument argparse takes for an option: it starts with "-" and is not
\* "-" alone
IsOptionLike(word) == StartsWith(word, "-") /\ word # "-"

\* parser.parse_args(): one optional positional, and -h/--help
DcbParseArgs ==
    /\ hook = DCB /\ pc = "parse_args"
    /\ IF \E k \in 1..Len(argv) : IsHelpFlag(argv[k])
       THEN \* the help action prints the usage to stdout and exits 0
            /\ Exit(0, <<"usage">>, <<>>)
            /\ UNCHANGED allowlist_arg
       ELSE IF Len(argv) > 1 \/ \E k \in 1..Len(argv) : IsOptionLike(argv[k])
       THEN \* parser.error: unrecognized arguments
            /\ Exit(2, <<>>, <<"usage", "error: unrecognized arguments">>)
            /\ UNCHANGED allowlist_arg
       ELSE /\ allowlist_arg' = IF argv = <<>> THEN "" ELSE argv[1]
            /\ Goto("get_tool_name", <<>>)
    /\ UNCHANGED <<inputs, sfp_locals, tool_name, payload, command, allowlist_pattern, checked>>

\* _hook_utils.get_tool_name
get_tool_name == IF env_TOOL_NAME.set THEN env_TOOL_NAME.val ELSE ""

DcbGetToolName ==
    /\ hook = DCB /\ pc = "get_tool_name"
    /\ tool_name' = get_tool_name
    /\ IF get_tool_name # "Bash"
       THEN Exit(0, <<>>, <<>>)
       ELSE Goto("get_tool_input", <<>>)
    /\ UNCHANGED <<inputs, sfp_locals, payload, command, allowlist_arg, allowlist_pattern, checked>>

\* _hook_utils.get_tool_input: "ok" with the payload, or the diagnostic it
\* prints before sys.exit(1)
get_tool_input ==
    IF ~env_TOOL_INPUT.set THEN [ok |-> FALSE, err |-> "TOOL_INPUT is not set"]
    ELSE IF env_TOOL_INPUT.json = "invalid"
         THEN [ok |-> FALSE, err |-> "TOOL_INPUT is not valid JSON"]
    ELSE IF env_TOOL_INPUT.val.t # "map"
         THEN [ok |-> FALSE, err |-> "TOOL_INPUT must be a JSON object"]
    ELSE [ok |-> TRUE, err |-> ""]

DcbGetToolInput ==
    /\ hook = DCB /\ pc = "get_tool_input"
    /\ IF get_tool_input.ok
       THEN /\ payload' = env_TOOL_INPUT.val
            /\ command' = DictGet(env_TOOL_INPUT.val, "command", JStr(""))
            /\ IF ~Truthy(command')
               THEN Exit(0, <<>>, <<>>)
               ELSE Goto("load_allowlist", <<>>)
       ELSE /\ Exit(1, <<>>, <<get_tool_input.err>>)
            /\ UNCHANGED <<payload, command>>
    /\ UNCHANGED <<inputs, sfp_locals, tool_name, allowlist_arg, allowlist_pattern, checked>>

DcbLoadAllowlist ==
    /\ hook = DCB /\ pc = "load_allowlist"
    /\ IF allowlist_arg = ""
       THEN /\ Goto("check_allowlist", <<>>)
            /\ UNCHANGED allowlist_pattern
       ELSE LET loaded == load_patterns(allowlist_arg)
            IN CASE loaded.outcome = "ok" ->
                      /\ allowlist_pattern' = [loaded |-> TRUE, re |-> loaded.re]
                      /\ Goto("check_allowlist", <<>>)
                 [] loaded.outcome = "FileNotFoundError" ->
                      /\ Goto("check_allowlist", <<"WARN: Allowlist file not found">>)
                      /\ UNCHANGED allowlist_pattern
                 [] loaded.outcome = "SystemExit" ->
                      /\ Goto("check_allowlist",
                              <<loaded.err, "WARN: Failed to load allowlist">>)
                      /\ UNCHANGED allowlist_pattern
                 [] OTHER ->
                      \* only FileNotFoundError and SystemExit are caught
                      /\ Uncaught(loaded.outcome)
                      /\ UNCHANGED allowlist_pattern
    /\ UNCHANGED <<inputs, sfp_locals, tool_name, payload, command, allowlist_arg, checked>>

\* what line 270 is not: an allowlist honoured only for a command the danger
\* classifier lets through (C1 fails of it)
allowlist_after_danger(pattern, cmd) ==
    /\ pattern.loaded
    /\ Search(pattern.re, cmd) # NoMatch
    /\ ~check_dangerous_pattern(cmd).dangerous

\* what line 270 is not: an allowlist searched in each segment of the
\* command on its own (C29 fails of it)
allowlist_per_segment(pattern, cmd) ==
    /\ pattern.loaded
    /\ \E k \in 1..Len(SplitOn(cmd, {"|", ";", "&"})) :
          Search(pattern.re, Strip(SplitOn(cmd, {"|", ";", "&"})[k])) # NoMatch

\* line 270: allowlist_pattern and allowlist_pattern.search(command)
allowlist_matches(pattern, cmd) ==
    pattern.loaded /\ Search(pattern.re, cmd) # NoMatch

DcbCheckAllowlist ==
    /\ hook = DCB /\ pc = "check_allowlist"
    /\ IF allowlist_pattern.loaded /\ command.t # "str"
       THEN \* Pattern.search of a value that is no string
            Uncaught("TypeError")
       ELSE IF allowlist_matches(allowlist_pattern, command.s)
       THEN Exit(0, <<>>, <<"INFO: Command allowed by allowlist">>)
       ELSE Goto("check_danger", <<>>)
    /\ UNCHANGED <<inputs, sfp_locals, tool_name, payload, command, allowlist_arg,
                   allowlist_pattern, checked>>

DcbCheckDanger ==
    /\ hook = DCB /\ pc = "check_danger"
    /\ IF command.t # "str"
       THEN \* re.split of a value that is no string
            /\ Uncaught("TypeError")
            /\ UNCHANGED checked
       ELSE LET verdict == check_dangerous_pattern(command.s)
            IN /\ checked' = checked + 1
               /\ IF verdict.dangerous
                  THEN \* block_response
                       Exit(2, <<BlockObject("Blocked: " \o verdict.reason)>>,
                            <<"WARN: Blocked command">>)
                  ELSE Exit(0, <<>>, <<>>)
    /\ UNCHANGED <<inputs, sfp_locals, tool_name, payload, command, allowlist_arg,
                   allowlist_pattern>>

DcbNext ==
    \/ DcbParseArgs
    \/ DcbGetToolName
    \/ DcbGetToolInput
    \/ DcbLoadAllowlist
    \/ DcbCheckAllowlist
    \/ DcbCheckDanger

(***************************************************************************)
(* sensitive-file-protector.py: main                                       *)
(***************************************************************************)
SFP == "sensitive-file-protector"

\* the (pattern, description) pairs of the lines that compile, and the
\* warnings of those that do not
RECURSIVE CompileLines(_, _)
CompileLines(patterns, k) ==
    IF k > Len(patterns) THEN [patterns |-> <<>>, warnings |-> <<>>]
    ELSE LET rest == CompileLines(patterns, k + 1)
             compiled == Compile(patterns[k])
         IN IF compiled = Invalid
            THEN [patterns |-> rest.patterns,
                  warnings |-> <<"WARN: Invalid regex in patterns file">> \o rest.warnings]
            ELSE [patterns |-> <<[re |-> compiled,
                                  description |-> "Custom pattern: " \o patterns[k]]>>
                               \o rest.patterns,
                  warnings |-> rest.warnings]

\* load_additional_patterns: [outcome, patterns, warnings]; patterns = <<>>
\* is None
load_additional_patterns(file_path) ==
    LET f == Files[file_path]
        loaded == CompileLines(EffectiveLines(f.lines, 1), 1)
    IN IF f.kind = "missing"
       THEN [outcome |-> "ok", patterns |-> <<>>,
             warnings |-> <<"WARN: Patterns file not found">>]
       ELSE IF f.kind = "unreadable"
       THEN [outcome |-> "ok", patterns |-> <<>>,
             warnings |-> <<"WARN: Error reading patterns file">>]
       ELSE IF f.kind = "undecodable"
       THEN \* UnicodeDecodeError is a ValueError, which nothing catches
            [outcome |-> "UnicodeDecodeError", patterns |-> <<>>, warnings |-> <<>>]
       ELSE [outcome |-> "ok", patterns |-> loaded.patterns, warnings |-> loaded.warnings]

\* lines 247-256
SfpLoadAdditional ==
    /\ hook = SFP /\ pc = "load_additional"
    /\ IF Len(argv) > 0
       THEN LET loaded == load_additional_patterns(argv[1])
            IN IF loaded.outcome = "ok"
               THEN /\ additional_patterns' = loaded.patterns
                    /\ Goto("get_tool_input",
                            loaded.warnings
                            \o (IF loaded.patterns # <<>>
                                THEN <<"INFO: Loaded additional patterns">> ELSE <<>>))
               ELSE /\ Uncaught(loaded.outcome)
                    /\ UNCHANGED additional_patterns
       ELSE /\ Goto("get_tool_input", <<>>)
            /\ UNCHANGED additional_patterns
    /\ UNCHANGED <<inputs, dcb_locals, tool_name, payload, command, paths_to_check, idx,
                   checked>>

\* lines 259-260
SfpGetToolInput ==
    /\ hook = SFP /\ pc = "get_tool_input"
    /\ tool_name' = get_tool_name
    /\ IF get_tool_input.ok
       THEN /\ payload' = env_TOOL_INPUT.val
            /\ Goto("extract_paths", <<>>)
       ELSE /\ Exit(1, <<>>, <<get_tool_input.err>>)
            /\ UNCHANGED payload
    /\ UNCHANGED <<inputs, dcb_locals, sfp_locals, command, checked>>

\* a value dict.fromkeys can take for a key
Hashable(v) == v.t \notin {"list", "map"}

\* lines 262-283: the paths of the event, before deduplication.  The
\* elements are JSON values: what file_path holds need not be a string.
ExtractedPaths(name, input) ==
    LET file_path == DictGet(input, "file_path", JStr(""))
        collected == [k \in 1..Len(collect_paths(input)) |-> JStr(collect_paths(input)[k])]
    IN IF name \in {"Read", "Edit", "Write"}
       THEN (IF Truthy(file_path) THEN <<file_path>> ELSE <<>>) \o collected
       ELSE collected

\* lines 262-290
SfpExtractPaths ==
    /\ hook = SFP /\ pc = "extract_paths"
    /\ IF tool_name = "Bash"
       THEN /\ command' = DictGet(payload, "command", JStr(""))
            /\ IF Truthy(command') /\ command'.t # "str"
               THEN \* shlex.split of a value that is no string
                    /\ Uncaught("AttributeError")
                    /\ UNCHANGED paths_to_check
               ELSE LET paths == IF Truthy(command')
                                 THEN extract_paths_from_bash_command(command'.s)
                                 ELSE <<>>
                    IN /\ paths_to_check' = Dedup([k \in 1..Len(paths) |-> JStr(paths[k])])
                       /\ IF paths = <<>>
                          THEN Exit(0, <<>>, <<>>)
                          ELSE Goto("check_path", <<>>)
       ELSE LET paths == ExtractedPaths(tool_name, payload)
            IN /\ UNCHANGED command
               /\ IF \E k \in 1..Len(paths) : ~Hashable(paths[k])
                  THEN \* dict.fromkeys of an unhashable value
                       /\ Uncaught("TypeError")
                       /\ UNCHANGED paths_to_check
                  ELSE /\ paths_to_check' = Dedup(paths)
                       /\ IF paths = <<>>
                          THEN Exit(0, <<>>, <<>>)
                          ELSE Goto("check_path", <<>>)
    /\ UNCHANGED <<inputs, dcb_locals, tool_name, payload, additional_patterns, idx, checked>>

\* lines 297-303: what main does with the verdict on one path
SfpVerdict(path, verdict) ==
    /\ checked' = checked + 1
    /\ idx' = idx + 1
    /\ IF verdict.sensitive
       THEN Exit(2,
                 <<BlockObject("Blocked: Access to '" \o path
                               \o "' is not allowed - " \o verdict.reason)>>,
                 <<"WARN: Blocked access to sensitive path">>)
       ELSE Goto("check_path", <<>>)

\* lines 293-306: one iteration of the loop over paths_to_check, or its end
SfpCheckPath ==
    /\ hook = SFP /\ pc = "check_path"
    /\ IF idx > Len(paths_to_check)
       THEN /\ Exit(0, <<>>, <<>>)
            /\ UNCHANGED <<idx, checked>>
       ELSE LET path == paths_to_check[idx]
            IN IF path.t # "str"
               THEN \* path.startswith of a value that is no string
                    /\ Uncaught("AttributeError")
                    /\ UNCHANGED <<idx, checked>>
               ELSE SfpVerdict(path.s, check_sensitive_path_with_additional(
                                           path.s, additional_patterns, cwd))
    /\ UNCHANGED <<inputs, dcb_locals, tool_name, payload, command, additional_patterns,
                   paths_to_check>>

SfpNext ==
    \/ SfpLoadAdditional
    \/ SfpGetToolInput
    \/ SfpExtractPaths
    \/ SfpCheckPath

(***************************************************************************)
(* The invocations explored                                                *)
(***************************************************************************)
Unset == [set |-> FALSE, val |-> ""]
SetTo(v) == [set |-> TRUE, val |-> v]

ToolNames == {Unset, SetTo("Bash"), SetTo("Read"), SetTo("Glob")}

DcbCommands ==
    { "ls",
      "ls; rm -rf /",
      "rm -rf /tmp/build",
      "rm -rf /",
      "rm -rf /tmp/x; rm -rf /",
      "git reset --hard",
      "cd x && git reset --hard",
      "echo \"git reset --hard\"",
      "echo \"DROP TABLE t;\"" }

DcbPayloads ==
    {JMap(<<>>), JMap(<<<<"command", JStr("")>>>>), JMap(<<<<"command", JNum(5)>>>>),
     JMap(<<<<"command", JNull>>>>),
     JMap(<<<<"description", JStr("x")>>, <<"command", JStr("rm -rf /")>>>>)}
    \cup {JMap(<<<<"command", JStr(c)>>>>) : c \in DcbCommands}

ToolInputs(payloads) ==
    {[set |-> FALSE, json |-> "unset", val |-> JNull],
     [set |-> TRUE, json |-> "invalid", val |-> JNull],
     [set |-> TRUE, json |-> "ok", val |-> JList(<<JStr("rm -rf /")>>)],
     [set |-> TRUE, json |-> "ok", val |-> JStr("rm -rf /")]}
    \cup {[set |-> TRUE, json |-> "ok", val |-> v] : v \in payloads}

DcbArgvs ==
    {<<>>, <<"">>, <<"-h">>, <<"--verbose">>, <<"tmp.txt", "two.txt">>, <<"tmp.txt", "--help">>}
    \cup {<<f>> : f \in FileNames}

InitLocals ==
    /\ pc = IF hook = DCB THEN "parse_args" ELSE "load_additional"
    /\ tool_name = ""
    /\ payload = JNull
    /\ command = JNull
    /\ allowlist_arg = ""
    /\ allowlist_pattern = NoPattern
    /\ additional_patterns = <<>>
    /\ paths_to_check = <<>>
    /\ idx = 1
    /\ arg = ""
    /\ result = <<>>
    /\ exit_code = Running
    /\ stdout = <<>>
    /\ stderr = <<>>
    /\ checked = 0
    /\ host = NoHost
    /\ files = NoFiles

DcbInit ==
    /\ hook = DCB
    /\ argv \in DcbArgvs
    /\ env_TOOL_NAME \in ToolNames
    /\ env_TOOL_INPUT \in ToolInputs(DcbPayloads)
    /\ cwd = "/w"
    /\ InitLocals

SfpPaths ==
    {".env", "src/main.py", "build/out.o", "notes.txt", "key", "~/.ssh/config",
     "/home/u/.aws/config", "./id_rsa", "build/secrets.txt", "build/notes.txt",
     "./build/a.txt"}

SfpPayloads ==
    {JMap(<<>>),
     JMap(<<<<"file_path", JNum(5)>>>>),
     JMap(<<<<"file_path", JList(<<JStr(".env")>>)>>>>),
     JMap(<<<<"file_path", JStr("")>>, <<"content", JStr(".env")>>>>),
     JMap(<<<<"path", JStr(".npmrc")>>, <<"file_path", JStr(".env")>>>>),
     JMap(<<<<"path", JStr("a.py")>>, <<"file_path", JStr("b.py")>>>>),
     JMap(<<<<"file_path", JNum(5)>>, <<"path", JStr(".env")>>>>),
     JMap(<<<<"file_path", JStr("notes.txt")>>, <<"path", JStr(".npmrc")>>,
            <<"file", JStr(".env")>>>>),
     JMap(<<<<"file_path", JStr("a.txt")>>,
            <<"nested", JMap(<<<<"target_file", JStr("b.txt")>>>>)>>>>),
     JMap(<<<<"file_path", JStr("a.py")>>,
            <<"edits", JList(<<JMap(<<<<"FILE", JStr("a.py")>>>>), JStr("x.pem"),
                               JMap(<<<<"Path", JList(<<JMap(<<<<"filename",
                                                                 JStr("key")>>>>)>>)>>>>)>>)>>>>),
     JMap(<<<<"command", JNum(5)>>>>),
     JMap(<<<<"command", JStr("")>>>>),
     JMap(<<<<"command", JStr("ls -la")>>>>),
     JMap(<<<<"command", JStr("cat .env")>>>>),
     JMap(<<<<"command", JStr("cat 'my notes' ./a ./a")>>>>),
     JMap(<<<<"command", JStr("cat \"./a b\" key")>>>>),
     JMap(<<<<"command", JStr("echo 'x ./.env")>>>>),
     JMap(<<<<"command", JStr("cp ./a.txt /tmp/x")>>>>)}
    \cup {JMap(<<<<"file_path", JStr(f)>>>>) : f \in SfpPaths}

SfpArgvs ==
    {<<>>, <<"missing.txt">>, <<"locked.txt">>, <<"blob.bin">>, <<"empty.txt">>,
     <<"mixed.txt">>, <<"extra.txt", "tmp.txt">>}

SfpInit ==
    /\ hook = SFP
    /\ argv \in SfpArgvs
    /\ env_TOOL_NAME \in ToolNames
    /\ env_TOOL_INPUT \in ToolInputs(SfpPayloads)
    /\ cwd = "/w"
    /\ InitLocals

Init == DcbInit \/ SfpInit

Next == DcbNext \/ SfpNext

Spec == Init /\ [][Next]_vars

(***************************************************************************)
(* check_dangerous_pattern called on its own                               *)
(***************************************************************************)
MaxAtoms == 2

CommandAtoms ==
    { "echo \"git reset --hard",
      "echo \"git reset --hard\"",
      "\" DROP TABLE t",
      "\"",
      " git reset --hard",
      "printf 'rm -rf /" }

CommandSeps == {"", ";", " && "}

\* the commands made of k atoms
RECURSIVE CommandsOf(_)
CommandsOf(k) ==
    IF k = 1 THEN CommandAtoms
    ELSE {c \o sep \o a : c \in CommandsOf(k - 1), sep \in CommandSeps, a \in CommandAtoms}

DangerCommands == UNION {CommandsOf(k) : k \in 1..MaxAtoms}

\* the variables of main() stay as they are before main() runs
Idle ==
    /\ argv = <<>>
    /\ env_TOOL_NAME = Unset
    /\ env_TOOL_INPUT = [set |-> FALSE, json |-> "unset", val |-> JNull]
    /\ tool_name = ""
    /\ payload = JNull
    /\ command = JNull
    /\ allowlist_arg = ""
    /\ allowlist_pattern = NoPattern
    /\ additional_patterns = <<>>
    /\ paths_to_check = <<>>
    /\ idx = 1
    /\ exit_code = Running
    /\ stdout = <<>>
    /\ stderr = <<>>
    /\ checked = 0
    /\ host = NoHost
    /\ files = NoFiles

main_vars == <<argv, env_TOOL_NAME, env_TOOL_INPUT, tool_name, payload, command,
               allowlist_arg, allowlist_pattern, additional_patterns, paths_to_check,
               idx, exit_code, stdout, stderr, checked, host, files>>

DangerInit ==
    /\ hook = DCB
    /\ pc = "call"
    /\ arg \in DangerCommands
    /\ cwd = "/w"
    /\ result = <<>>
    /\ Idle

CallCheckDangerous ==
    /\ pc = "call"
    /\ result' = check_dangerous_pattern(arg)
    /\ pc' = "returned"
    /\ UNCHANGED <<hook, arg, cwd, main_vars>>

DangerNext == CallCheckDangerous

SpecDanger == DangerInit /\ [][DangerNext]_vars

(***************************************************************************)
(* normalize_path called on its own                                        *)
(***************************************************************************)
MaxPathParts == 3

PathParts == {"/", ".", "..", "~", "a", "w", "key", "d", "./"}

RECURSIVE PathsOf(_)
PathsOf(k) ==
    IF k = 0 THEN {""}
    ELSE {p \o part : p \in PathsOf(k - 1), part \in PathParts}

NormPaths == UNION {PathsOf(k) : k \in 0..MaxPathParts} \cup {"./foo/bar", "~root/.ssh"}

NormInit ==
    /\ hook = SFP
    /\ pc = "call"
    /\ arg \in NormPaths
    /\ cwd \in {"/w", "/home/u"}
    /\ result = <<>>
    /\ Idle

CallNormalizePath ==
    /\ pc = "call"
    /\ result' = normalize_path(arg, cwd)
    /\ pc' = "returned"
    /\ UNCHANGED <<hook, arg, cwd, main_vars>>

NormNext == CallNormalizePath

SpecNorm == NormInit /\ [][NormNext]_vars

(***************************************************************************)
(* load_patterns called on its own, on the pattern files of up to MaxLines *)
(* lines                                                                   *)
(***************************************************************************)
MaxLines == 3

LineAtoms == {"", "   ", "# c", "  # c  ", "^ls$", "  notes ", "("}

RECURSIVE LinesOf(_)
LinesOf(k) ==
    IF k = 0 THEN {<<>>}
    ELSE {Append(ls, a) : ls \in LinesOf(k - 1), a \in LineAtoms}

PatternFiles ==
    {[kind |-> "file", lines |-> ls] : ls \in UNION {LinesOf(k) : k \in 0..MaxLines}}
    \cup {[kind |-> kind, lines |-> <<>>] : kind \in {"missing", "unreadable", "undecodable"}}

LoadInit ==
    /\ hook = DCB
    /\ pc = "call"
    /\ arg \in PatternFiles
    /\ cwd = "/w"
    /\ result = <<>>
    /\ Idle

CallLoadPatterns ==
    /\ pc = "call"
    /\ result' = load_patterns_of(arg)
    /\ pc' = "returned"
    /\ UNCHANGED <<hook, arg, cwd, main_vars>>

LoadNext == CallLoadPatterns

SpecLoad == LoadInit /\ [][LoadNext]_vars

(***************************************************************************)
(* check_dangerous_pattern called on git push commands                     *)
(***************************************************************************)
MaxArgs == 3

PushTokens == {"--force", "--force-with-lease", "-f", "origin", "main", "master"}

\* the argument lists of k tokens
RECURSIVE PushArgLists(_)
PushArgLists(k) ==
    IF k = 0 THEN {<<>>}
    ELSE {Append(args, t) : args \in PushArgLists(k - 1), t \in PushTokens}

\* each argument after one space
RECURSIVE Spaced(_)
Spaced(args) == IF args = <<>> THEN "" ELSE " " \o Head(args) \o Spaced(Tail(args))

PushCommands ==
    {"git push" \o Spaced(args) : args \in UNION {PushArgLists(k) : k \in 1..MaxArgs}}
    \cup {"cd x && git push -f origin main",
          "git push -f origin dev; git checkout main",
          "git push origin dev | grep main -f",
          "git  push\torigin  main\t-f",
          "git push origin HEAD:main --force",
          "git push -u origin main",
          "git push --force origin maintenance"}

PushInit ==
    /\ hook = DCB
    /\ pc = "call"
    /\ arg \in PushCommands
    /\ cwd = "/w"
    /\ result = <<>>
    /\ Idle

SpecPush == PushInit /\ [][DangerNext]_vars

(***************************************************************************)
(* check_dangerous_pattern called on DELETE FROM statements                *)
(***************************************************************************)
DeleteHeads == {"DELETE FROM", "delete from", "Delete  From"}
DeleteTables == {"users", "t1", "user_log"}
DeleteTails ==
    {"", " ", ";", " ;", "|", " | wc -l", " WHERE id=1", "\nWHERE id=1", " where id=1",
     " &", " && ls", ",b", "\n", ".old", "; DROP", " -- all"}

DeleteStatements ==
    {head \o " " \o table \o tail :
        head \in DeleteHeads, table \in DeleteTables, tail \in DeleteTails}
    \cup {"mysql -e \"DELETE FROM users\"",
          "echo \"DELETE FROM users\"",
          "DELETE FROM",
          "UNDELETE FROM users",
          "DELETE FROM users\tWHERE id=1",
          "DELETE\nFROM users"}

DeleteInit ==
    /\ hook = DCB
    /\ pc = "call"
    /\ arg \in DeleteStatements
    /\ cwd = "/w"
    /\ result = <<>>
    /\ Idle

SpecDelete == DeleteInit /\ [][DangerNext]_vars

(***************************************************************************)
(* auto-formatter.py and type-checker.py: main                             *)
(***************************************************************************)
AF == "auto-formatter"
TC == "type-checker"

log_info(message) == "[" \o hook \o "] INFO: " \o message
log_warn(message) == "[" \o hook \o "] WARN: " \o message
log_error(message) == "[" \o hook \o "] ERROR: " \o message

\* sub in s
Contains(s, sub) ==
    \E i \in 1..(Len(s) - Len(sub) + 1) : SubSeq(s, i, i + Len(sub) - 1) = sub

\* the last position of the character c in p, 0 when there is none (str.rfind)
RFind(p, c) ==
    LET at == {i \in 1..Len(p) : CharAt(p, i) = c}
    IN IF at = {} THEN 0 ELSE MaxOf(at)

\* os.path.splitext: the extension starts at the last dot of the last
\* component, unless only dots come before it
splitext(p) ==
    LET sepIndex == RFind(p, "/")
        dotIndex == RFind(p, ".")
    IN IF dotIndex > sepIndex
          /\ \E i \in (sepIndex + 1)..(dotIndex - 1) : CharAt(p, i) # "."
       THEN <<SubSeq(p, 1, dotIndex - 1), SubSeq(p, dotIndex, Len(p))>>
       ELSE <<p, "">>

None == <<>>

FORMATTER_MAP ==
    [ext \in {".js", ".jsx", ".ts", ".tsx", ".json", ".md", ".css", ".html", ".py", ".go"} |->
        IF ext = ".py" THEN <<"black", <<"black">>>>
        ELSE IF ext = ".go" THEN <<"gofmt", <<"gofmt", "-w">>>>
        ELSE <<"prettier", <<"prettier", "--write">>>>]

get_formatter_for_file(path) ==
    LET ext_lower == LowerStr(splitext(path)[2])
    IN IF ext_lower \notin DOMAIN FORMATTER_MAP THEN None
       ELSE <<FORMATTER_MAP[ext_lower][1], FORMATTER_MAP[ext_lower][2] \o <<path>>>>

TYPE_CHECKER_MAP ==
    [ext \in {".ts", ".tsx", ".py"} |->
        IF ext = ".py" THEN <<"mypy", <<>>>> ELSE <<"tsc", <<"--noEmit">>>>]

TYPE_CHECK_TIMEOUT == "30"

get_type_checker_for_file(path) ==
    LET ext_lower == LowerStr(splitext(path)[2])
    IN IF ext_lower \in DOMAIN TYPE_CHECKER_MAP
       THEN <<TYPE_CHECKER_MAP[ext_lower][1],
              <<TYPE_CHECKER_MAP[ext_lower][1]>> \o TYPE_CHECKER_MAP[ext_lower][2] \o <<path>>>>
       ELSE None

\* shutil.which(cmd) is not None
check_command_exists(cmd) == cmd \in host.which

\* what subprocess.run(args, capture_output=True, text=True, timeout=30) does
Completed(returncode, out, err) ==
    [kind |-> "completed", returncode |-> returncode, stdout |-> out, stderr |-> err]
RunRaises(exception) ==
    [kind |-> exception, returncode |-> 0, stdout |-> "", stderr |-> ""]

\* run_subprocess: the triple it returns, or the exception that leaves it
run_subprocess(args) ==
    LET run == host.run
    IN CASE run.kind = "completed" ->
                [raises |-> "", returncode |-> run.returncode, stdout |-> run.stdout,
                 stderr |-> run.stderr]
         [] run.kind = "TimeoutExpired" ->
                [raises |-> "", returncode |-> 0 - 1, stdout |-> "",
                 stderr |-> "Process timed out"]
         [] run.kind = "FileNotFoundError" ->
                [raises |-> "", returncode |-> 0 - 1, stdout |-> "",
                 stderr |-> "Command not found: " \o (IF args # <<>> THEN args[1] ELSE "empty")]
         [] run.kind = "OSError" ->
                [raises |-> "", returncode |-> 0 - 1, stdout |-> "",
                 stderr |-> "OS error: Permission denied"]
         [] OTHER ->
                [raises |-> run.kind, returncode |-> 0, stdout |-> "", stderr |-> ""]

\* payload.get("file_path")
file_path == DictGet(payload, "file_path", JNull)

\* the strings print(text, end="") writes: nothing for an empty text
Forwarded(text) == IF text = "" THEN <<>> ELSE <<text>>

\* auto-formatter.py lines 75-80
AfGetToolInput ==
    /\ hook = AF /\ pc = "get_tool_input"
    /\ IF get_tool_input.ok
       THEN /\ payload' = env_TOOL_INPUT.val
            /\ IF ~Truthy(DictGet(payload', "file_path", JNull))
               THEN Exit(0, <<>>, <<>>)
               ELSE Goto("select", <<>>)
       ELSE \* the SystemExit(1) of get_tool_input leaves main
            /\ Exit(1, <<>>, <<get_tool_input.err>>)
            /\ UNCHANGED payload
    /\ UNCHANGED <<inputs, dcb_locals, sfp_locals, tool_name, command, checked>>

\* auto-formatter.py lines 83-98
AfSelect ==
    /\ hook = AF /\ pc = "select"
    /\ IF file_path.t \notin {"str", "num"}
       THEN \* os.stat of a list or a dict
            Uncaught("TypeError")
       ELSE IF ~host.exists
       THEN Exit(0, <<>>, <<log_warn("File does not exist (may have been deleted)")>>)
       ELSE IF file_path.t # "str"
       THEN \* os.path.splitext of a number
            Uncaught("TypeError")
       ELSE IF get_formatter_for_file(file_path.s) = None
       THEN Exit(0, <<>>, <<>>)
       ELSE IF ~check_command_exists(get_formatter_for_file(file_path.s)[1])
       THEN Exit(0, <<>>, <<log_warn(get_formatter_for_file(file_path.s)[1]
                                      \o " not found in PATH, skipping formatting")>>)
       ELSE Goto("run", <<>>)
    /\ UNCHANGED <<inputs, dcb_locals, sfp_locals, tool_name, payload, command, checked>>

AfRunning(formatter_name) == log_info("Running " \o formatter_name)

\* what follows subprocess.run in auto-formatter.py, lines 113-135
AfAfterRun(formatter_name, run) ==
    CASE run.kind = "completed" ->
             Exit(0, <<>>, <<AfRunning(formatter_name)>> \o Forwarded(run.stderr))
      [] run.kind = "TimeoutExpired" ->
             Exit(0, <<>>, <<AfRunning(formatter_name),
                             log_warn(formatter_name \o " timed out after 30s, killing process")>>)
      [] run.kind = "FileNotFoundError" ->
             Exit(0, <<>>, <<AfRunning(formatter_name),
                             log_warn(formatter_name \o " not found")>>)
      [] run.kind = "OSError" ->
             Exit(0, <<>>, <<AfRunning(formatter_name),
                             log_warn("OS error running " \o formatter_name)>>)
      [] OTHER ->
             \* an exception no except clause names
             Exit(1, <<>>, <<AfRunning(formatter_name), "Traceback: " \o run.kind>>)

\* auto-formatter.py lines 101-135
AfRun ==
    /\ hook = AF /\ pc = "run"
    /\ checked' = checked + 1
    /\ AfAfterRun(get_formatter_for_file(file_path.s)[1], host.run)
    /\ UNCHANGED <<inputs, dcb_locals, sfp_locals, tool_name, payload, command>>

AfNext ==
    \/ AfGetToolInput
    \/ AfSelect
    \/ AfRun

\* type-checker.py lines 81-92
TcGetToolInput ==
    /\ hook = TC /\ pc = "get_tool_input"
    /\ IF get_tool_input.ok
       THEN /\ payload' = env_TOOL_INPUT.val
            /\ IF ~Truthy(DictGet(payload', "file_path", JNull))
               THEN Exit(0, <<>>, <<>>)
               ELSE Goto("select", <<>>)
       ELSE /\ Exit(0, <<>>, <<get_tool_input.err, log_warn("Could not parse TOOL_INPUT")>>)
            /\ UNCHANGED payload
    /\ UNCHANGED <<inputs, dcb_locals, sfp_locals, tool_name, command, checked>>

\* type-checker.py lines 95-105
TcSelect ==
    /\ hook = TC /\ pc = "select"
    /\ IF file_path.t # "str"
       THEN \* os.path.splitext of what is no path
            Uncaught("TypeError")
       ELSE IF get_type_checker_for_file(file_path.s) = None
       THEN Exit(0, <<>>, <<>>)
       ELSE IF ~check_command_exists(get_type_checker_for_file(file_path.s)[1])
       THEN Exit(0, <<>>, <<log_warn(get_type_checker_for_file(file_path.s)[1]
                                      \o " not found in PATH, skipping type check")>>)
       ELSE Goto("run", <<>>)
    /\ UNCHANGED <<inputs, dcb_locals, sfp_locals, tool_name, payload, command, checked>>

TcRunning(checker_name) == log_info("Running " \o checker_name)

\* what follows run_subprocess in type-checker.py, lines 112-136
TcAfterRun(checker_name, ran) ==
    IF ran.raises # ""
    THEN Exit(1, <<>>, <<TcRunning(checker_name), "Traceback: " \o ran.raises>>)
    ELSE IF ran.returncode = 0 - 1 /\ Contains(LowerStr(ran.stderr), "timed out")
    THEN Exit(0, <<>>, <<TcRunning(checker_name),
                         log_warn(checker_name \o " timed out after " \o TYPE_CHECK_TIMEOUT \o "s")>>)
    ELSE IF ran.returncode = 0 - 1
    THEN Exit(0, <<>>, <<TcRunning(checker_name),
                         log_error("Failed to run " \o checker_name \o ": " \o ran.stderr)>>)
    ELSE Exit(0, <<>>, <<TcRunning(checker_name)>> \o Forwarded(ran.stdout)
                       \o Forwarded(ran.stderr)
                       \o <<IF ran.returncode = 0
                            THEN log_info(checker_name \o " completed with no errors")
                            ELSE log_warn(checker_name \o " found type errors")>>)

\* type-checker.py lines 108-136
TcRun ==
    /\ hook = TC /\ pc = "run"
    /\ checked' = checked + 1
    /\ TcAfterRun(get_type_checker_for_file(file_path.s)[1],
                  run_subprocess(get_type_checker_for_file(file_path.s)[2]))
    /\ UNCHANGED <<inputs, dcb_locals, sfp_locals, tool_name, payload, command>>

TcNext ==
    \/ TcGetToolInput
    \/ TcSelect
    \/ TcRun

PostPaths == {"a.py", "src/App.TSX", "notes.txt", "Makefile", ".py", "main.go"}

PostPayloads ==
    {JMap(<<>>),
     JMap(<<<<"file_path", JStr("")>>>>),
     JMap(<<<<"file_path", JNum(5)>>>>),
     JMap(<<<<"file_path", JList(<<JStr("a.py")>>)>>>>)}
    \cup {JMap(<<<<"file_path", JStr(f)>>>>) : f \in PostPaths}

Tools == {"prettier", "black", "gofmt", "tsc", "mypy"}

RunOutcomes ==
    {Completed(0, "", ""),
     Completed(0, "Success: no issues found", ""),
     Completed(1, "a.py:1: error: bad type", ""),
     Completed(1, "", "error: cannot format a.py"),
     Completed(2, "", ""),
     Completed(0 - 1, "", "lock wait timed out"),
     RunRaises("TimeoutExpired"),
     RunRaises("FileNotFoundError"),
     RunRaises("OSError"),
     RunRaises("UnicodeDecodeError")}

Hosts ==
    [exists : BOOLEAN, which : {{}, Tools}, run : RunOutcomes]

PostInit ==
    /\ hook \in {AF, TC}
    /\ argv = <<>>
    /\ env_TOOL_NAME \in {SetTo("Edit")}
    /\ env_TOOL_INPUT \in ToolInputs(PostPayloads)
    /\ cwd = "/w"
    /\ pc = "get_tool_input"
    /\ tool_name = ""
    /\ payload = JNull
    /\ command = JNull
    /\ allowlist_arg = ""
    /\ allowlist_pattern = NoPattern
    /\ additional_patterns = <<>>
    /\ paths_to_check = <<>>
    /\ idx = 1
    /\ arg = ""
    /\ result = <<>>
    /\ exit_code = Running
    /\ stdout = <<>>
    /\ stderr = <<>>
    /\ checked = 0
    /\ host \in Hosts
    /\ files = NoFiles

PostNext == AfNext \/ TcNext

SpecPost == PostInit /\ [][PostNext]_vars

(***************************************************************************)
(* update-system2-yaml.py: merge                                           *)
(* A YAML value is written as a JSON value (JMap, JList, JStr, JNum,       *)
(* JNull).  A file is [kind, data]: kind is "missing", "directory" (it     *)
(* exists and read_text raises IsADirectoryError), "undecodable" (its      *)
(* bytes are not UTF-8), "invalid" (text yaml.safe_load rejects) or "yaml" *)
(* with the value safe_load returns.                                       *)
(***************************************************************************)
UPDATE == "update-system2-yaml"

YamlFile(data) == [kind |-> "yaml", data |-> data]
OtherFile(kind) == [kind |-> kind, data |-> JNull]

\* yaml.dump(value) to a file and yaml.safe_load of its text
yaml_dump(data) == YamlFile(data)
safe_load(f) == f.data

\* the elements of a list value
ListItems(list) == [k \in 1..Len(list.items) |-> list.items[k].v]

\* key in mapping
HasKey(map, key) == \E k \in 1..Len(map.items) : map.items[k].k = key

\* mapping[key] = value on a copy: the key keeps its place, a new key goes last
DictSet(map, key, value) ==
    IF HasKey(map, key)
    THEN [map EXCEPT !.items = [k \in 1..Len(map.items) |->
                                   IF map.items[k].k = key
                                   THEN [k |-> key, v |-> value] ELSE map.items[k]]]
    ELSE [map EXCEPT !.items = Append(map.items, [k |-> key, v |-> value])]

\* _load_yaml: the mapping loaded, None (none = TRUE), or the exception that
\* leaves it (only yaml.YAMLError is caught)
Loaded(data) == [raises |-> "", none |-> FALSE, data |-> data]
LoadedNone == [raises |-> "", none |-> TRUE, data |-> JNull]
LoadRaises(exception) == [raises |-> exception, none |-> FALSE, data |-> JNull]

load_yaml(f) ==
    IF f.kind = "missing" THEN LoadedNone
    ELSE IF f.kind = "directory" THEN LoadRaises("IsADirectoryError")
    ELSE IF f.kind = "undecodable" THEN LoadRaises("UnicodeDecodeError")
    ELSE IF f.kind = "invalid" THEN LoadedNone
    ELSE IF safe_load(f).t # "map" THEN LoadedNone
    ELSE Loaded(safe_load(f))

\* the entries of modes that are mappings with a slug key
Slugged(modes) == SelectSeq(modes, LAMBDA m : m.t = "map" /\ HasKey(m, "slug"))

\* extract_slugs_from_pack: the set of slugs, or TypeError for a slug no set
\* can hold
extract_slugs_from_pack(pack_data) ==
    LET modes == DictGet(pack_data, "customModes", JList(<<>>))
    IN IF modes.t # "list" THEN [raises |-> "", slugs |-> {}]
       ELSE IF \E k \in 1..Len(Slugged(ListItems(modes))) :
                   ~Hashable(DictGet(Slugged(ListItems(modes))[k], "slug", JNull))
       THEN [raises |-> "TypeError", slugs |-> {}]
       ELSE [raises |-> "",
             slugs |-> {DictGet(Slugged(ListItems(modes))[k], "slug", JNull) :
                           k \in 1..Len(Slugged(ListItems(modes)))}]

\* how merge_modes ends: "ok" with the statistics, "exit" (sys.exit(code)
\* after the diagnostic err) or "raise"; fs is the file system it leaves
Merged(fs, stats) ==
    [outcome |-> "ok", code |-> 0, err |-> "", fs |-> fs, stats |-> stats]
MergeExit(fs, code, err) ==
    [outcome |-> "exit", code |-> code, err |-> err, fs |-> fs, stats |-> <<>>]
MergeRaises(fs, exception) ==
    [outcome |-> "raise", code |-> 1, err |-> exception, fs |-> fs, stats |-> <<>>]

\* m.get("slug")
SlugOf(m) == DictGet(m, "slug", JNull)

\* lines 73-110: the lists are built, the output is written and read back
MergeLists(fs, output_path, existing_data, existing_modes, incoming_modes, system2_slugs) ==
    LET dicts == SelectSeq(existing_modes, LAMBDA m : m.t = "map")
        preserved_modes == SelectSeq(dicts, LAMBDA m : SlugOf(m) \notin system2_slugs)
        replaced_slugs == {SlugOf(dicts[k]) : k \in {j \in 1..Len(dicts) :
                                                       SlugOf(dicts[j]) \in system2_slugs}}
        merged_modes == preserved_modes \o incoming_modes
        output_data == DictSet(existing_data, "customModes", JList(merged_modes))
    IN IF \E k \in 1..Len(dicts) : ~Hashable(SlugOf(dicts[k]))
       THEN \* x in a set hashes x
            MergeRaises(fs, "TypeError")
       ELSE IF fs[output_path].kind = "directory"
       THEN MergeRaises(fs, "IsADirectoryError")
       ELSE Merged([fs EXCEPT ![output_path] = yaml_dump(output_data)],
                   [added |-> Cardinality(system2_slugs \ replaced_slugs),
                    replaced |-> Cardinality(replaced_slugs),
                    preserved |-> Len(preserved_modes)])

\* what the merge is not: one that writes the pack alone and keeps nothing
\* of the existing file (C18 fails of it)
OverwriteWithPack(fs, output_path, existing, incoming_modes, system2_slugs) ==
    MergeLists(fs, output_path, JMap(<<<<"customModes", JList(<<>>)>>>>), <<>>,
               incoming_modes, system2_slugs)

\* lines 64-70: the existing file, which may be missing or empty
MergeInto(fs, output_path, existing, incoming_modes, system2_slugs) ==
    IF existing.raises # "" THEN MergeRaises(fs, existing.raises)
    ELSE IF existing.none
    THEN MergeLists(fs, output_path, JMap(<<<<"customModes", JList(<<>>)>>>>), <<>>,
                    incoming_modes, system2_slugs)
    ELSE IF DictGet(existing.data, "customModes", JList(<<>>)).t # "list"
    THEN MergeLists(fs, output_path, existing.data, <<>>, incoming_modes, system2_slugs)
    ELSE MergeLists(fs, output_path, existing.data,
                    ListItems(DictGet(existing.data, "customModes", JList(<<>>))),
                    incoming_modes, system2_slugs)

\* lines 47-61: the incoming pack is checked
MergePack(fs, existing_path, output_path, incoming_data, incoming_modes, extracted) ==
    IF incoming_modes.t # "list"
    THEN MergeExit(fs, 3, "ERROR: Incoming pack has no valid 'customModes' list")
    ELSE IF extracted.raises # "" THEN MergeRaises(fs, extracted.raises)
    ELSE IF extracted.slugs = {}
    THEN MergeExit(fs, 3, "ERROR: Incoming pack contains no modes with slugs")
    ELSE MergeInto(fs, output_path, load_yaml(fs[existing_path]), ListItems(incoming_modes),
                   extracted.slugs)

\* merge_modes on the file system fs
merge_modes(fs, existing_path, incoming_path, output_path) ==
    IF load_yaml(fs[incoming_path]).raises # ""
    THEN MergeRaises(fs, load_yaml(fs[incoming_path]).raises)
    ELSE IF load_yaml(fs[incoming_path]).none
    THEN MergeExit(fs, 3, "ERROR: Failed to parse incoming pack")
    ELSE MergePack(fs, existing_path, output_path, load_yaml(fs[incoming_path]).data,
                   DictGet(load_yaml(fs[incoming_path]).data, "customModes", JList(<<>>)),
                   extract_slugs_from_pack(load_yaml(fs[incoming_path]).data))

merge_frame == <<hook, cwd, argv, env_TOOL_NAME, env_TOOL_INPUT, tool_name, payload, command,
                 allowlist_arg, allowlist_pattern, additional_patterns, paths_to_check,
                 idx, host>>

\* main, lines 227-232, for the subcommand merge with arg = [existing,
\* incoming, output]: what happens once merge_modes ended as merge
MainMerge(merge) ==
    /\ files' = merge.fs
    /\ result' = merge.stats
    /\ checked' = checked + 1
    /\ IF merge.outcome = "ok" THEN Exit(0, <<"Merge complete">>, <<>>)
       ELSE IF merge.outcome = "exit" THEN Exit(merge.code, <<>>, <<merge.err>>)
       ELSE Uncaught(merge.err)

CallMergeModes ==
    /\ hook = UPDATE /\ pc = "call"
    /\ MainMerge(merge_modes(files, arg.existing, arg.incoming, arg.output))
    /\ UNCHANGED <<merge_frame, arg>>

\* the script is run once more: the output of the merge is merged with the
\* same pack into a second output
MergeAgain ==
    /\ hook = UPDATE /\ pc = "exited" /\ exit_code = 0
    /\ arg.output = "merged1.yaml"
    /\ arg' = [arg EXCEPT !.existing = "merged1.yaml", !.output = "merged2.yaml"]
    /\ pc' = "call"
    /\ exit_code' = Running
    /\ stdout' = <<>>
    /\ stderr' = <<>>
    /\ UNCHANGED <<merge_frame, files, result, checked>>

MergeNext == CallMergeModes \/ MergeAgain

MaxModes == 2

Mode(slug, name) == JMap(<<<<"slug", slug>>, <<"name", JStr(name)>>>>)
Unnamed == JMap(<<<<"name", JStr("no slug")>>>>)
ListSlug == Mode(JList(<<JStr("a")>>), "list for slug")

ExistingEntries == {Mode(JStr("mine"), "Mine"), Mode(JStr("a"), "old A"), Unnamed,
                    JStr("note"), ListSlug}
IncomingEntries == {Mode(JStr("a"), "new A"), Mode(JStr("b"), "B"), Unnamed,
                    JStr("note"), ListSlug}

\* the lists of at most k entries
RECURSIVE ListsOf(_, _)
ListsOf(entries, k) ==
    IF k = 0 THEN {<<>>}
    ELSE ListsOf(entries, k - 1)
         \cup {Append(l, e) : l \in ListsOf(entries, k - 1), e \in entries}

\* what a path may hold, given the entries a customModes list is made of
YamlFiles(entries) ==
    {OtherFile("missing"), OtherFile("directory"), OtherFile("undecodable"),
     OtherFile("invalid"),
     YamlFile(JNull),
     YamlFile(JList(<<Mode(JStr("a"), "in a list")>>)),
     YamlFile(JMap(<<<<"version", JNum(1)>>>>)),
     YamlFile(JMap(<<<<"customModes", JStr("none")>>>>))}
    \cup {YamlFile(JMap(<<<<"customModes", JList(l)>>, <<"version", JNum(1)>>>>)) :
             l \in ListsOf(entries, MaxModes)}

OldOutput == YamlFile(JMap(<<<<"customModes", JList(<<Mode(JStr("old"), "Old")>>)>>>>))

MergeFileSystems ==
    {[name \in {"existing.yaml", "pack.yml", "merged1.yaml", "merged2.yaml"} |->
         CASE name = "existing.yaml" -> e
           [] name = "pack.yml" -> i
           [] name = "merged1.yaml" -> o
           [] OTHER -> OtherFile("missing")] :
        e \in YamlFiles(ExistingEntries), i \in YamlFiles(IncomingEntries),
        o \in {OtherFile("missing"), OldOutput}}

MergeInit ==
    /\ hook = UPDATE
    /\ pc = "call"
    /\ arg = [existing |-> "existing.yaml", incoming |-> "pack.yml", output |-> "merged1.yaml"]
    /\ files \in MergeFileSystems
    /\ cwd = "/w"
    /\ result = <<>>
    /\ argv = <<>>
    /\ env_TOOL_NAME = Unset
    /\ env_TOOL_INPUT = [set |-> FALSE, json |-> "unset", val |-> JNull]
    /\ tool_name = ""
    /\ payload = JNull
    /\ command = JNull
    /\ allowlist_arg = ""
    /\ allowlist_pattern = NoPattern
    /\ additional_patterns = <<>>
    /\ paths_to_check = <<>>
    /\ idx = 1
    /\ exit_code = Running
    /\ stdout = <<>>
    /\ stderr = <<>>
    /\ checked = 0
    /\ host = NoHost

SpecMerge == MergeInit /\ [][MergeNext]_vars

(***************************************************************************)
(* scripts/generate-manifest.py: collect_files called on its own.  A       *)
(* repository root is modelled by the set of the files below it, as paths  *)
(* relative to it; its directories are the proper prefixes of those paths. *)
(* The description of an entry is a function of its path alone and is left *)
(* out of the entries.                                                     *)
(***************************************************************************)
MANIFEST == "generate-manifest"

\* the characters of a path in code point order: Python compares strings
\* by code points
CodePoints == "-./0123456789ABCDEFGHIJKLMNOPQRSTUVWXYZ_abcdefghijklmnopqrstuvwxyz"

Ord(c) == CHOOSE k \in 1..Len(CodePoints) : CharAt(CodePoints, k) = c

\* a < b for str
RECURSIVE StrLess(_, _)
StrLess(a, b) ==
    IF b = "" THEN FALSE
    ELSE IF a = "" THEN TRUE
    ELSE IF CharAt(a, 1) = CharAt(b, 1)
         THEN StrLess(SubSeq(a, 2, Len(a)), SubSeq(b, 2, Len(b)))
         ELSE Ord(CharAt(a, 1)) < Ord(CharAt(b, 1))

Rule(pattern, platform, scope, validation) ==
    [pattern |-> pattern, platform |-> platform, scope |-> scope, validation |-> validation]

FILE_RULES ==
    << Rule(".claude/agents/*.md", "claude", "project", "markdown"),
       Rule(".claude/allowlists/*", "claude", "project", "none"),
       Rule(".claude/commands/*.md", "claude", "all", "markdown"),
       Rule(".roo/commands/*.md", "roo", "all", "markdown"),
       Rule("scripts/claude-hooks/*.py", "claude", "project", "python"),
       Rule("scripts/claude-hooks/*.regex", "claude", "project", "none"),
       Rule("roo/system2-pack.yml", "roo", "all", "yaml"),
       Rule("CLAUDE.md", "claude", "project", "none") >>

ManifestEntry(path, platform, scope, validation) ==
    [path |-> path, platform |-> platform, scope |-> scope, validation |-> validation]

EXPLICIT_FILES ==
    << ManifestEntry("scripts/update-system2.sh", "all", "project", "shell"),
       ManifestEntry("scripts/update-system2-yaml.py", "roo", "project", "python") >>

EXCLUDE_FILES == {"scripts/generate-manifest.py"}

\* what exists below the root: the files and the directories above them
DiskEntries(disk) ==
    disk \cup UNION {{SubSeq(f, 1, i - 1) : i \in {j \in 2..Len(f) : CharAt(f, j) = "/"}} :
                        f \in disk}

\* the path matches the pattern: a pattern is a relative path with at most
\* one *, in its last component; * stands for any characters but /
PathMatches(path, pattern) ==
    LET stars == {i \in 1..Len(pattern) : CharAt(pattern, i) = "*"}
        star == MinOf(stars)
        head == SubSeq(pattern, 1, star - 1)
        tail == SubSeq(pattern, star + 1, Len(pattern))
    IN IF stars = {} THEN path = pattern
       ELSE /\ Len(path) >= Len(head) + Len(tail)
            /\ StartsWith(path, head)
            /\ EndsWith(path, tail)
            /\ \A i \in (Len(head) + 1)..(Len(path) - Len(tail)) : CharAt(path, i) # "/"
            \* a component is never empty
            /\ (tail = "" => Len(path) > Len(head))

\* repo_root.glob(pattern), relative to the root
Glob(disk, pattern) == {e \in DiskEntries(disk) : PathMatches(e, pattern)}

\* sorted(paths): the matches of one rule lie in one directory, where the
\* order of Path objects is the order of the names
RECURSIVE SortedPaths(_)
SortedPaths(S) ==
    IF S = {} THEN <<>>
    ELSE <<CHOOSE x \in S : \A y \in S \ {x} : StrLess(x, y)>>
         \o SortedPaths(S \ {CHOOSE x \in S : \A y \in S \ {x} : StrLess(x, y)})

\* rel in seen_paths: seen_paths holds the paths of the entries appended
Seen(files_list, rel) == \E k \in 1..Len(files_list) : files_list[k].path = rel

\* lines 101-114: the matches of one rule, from the k-th on
RECURSIVE MatchedLoop(_, _, _, _)
MatchedLoop(matched, k, rule, files_list) ==
    IF k > Len(matched) THEN files_list
    ELSE IF matched[k] \in EXCLUDE_FILES \/ Seen(files_list, matched[k])
    THEN MatchedLoop(matched, k + 1, rule, files_list)
    ELSE MatchedLoop(matched, k + 1, rule,
             Append(files_list,
                    ManifestEntry(matched[k], rule.platform, rule.scope, rule.validation)))

\* lines 99-114: the rules from the r-th on
RECURSIVE RuleLoop(_, _, _)
RuleLoop(disk, r, files_list) ==
    IF r > Len(FILE_RULES) THEN files_list
    ELSE RuleLoop(disk, r + 1,
             MatchedLoop(SortedPaths(Glob(disk, FILE_RULES[r].pattern)), 1,
                         FILE_RULES[r], files_list))

\* lines 116-129: the explicit files from the k-th on
RECURSIVE ExplicitLoop(_, _)
ExplicitLoop(k, files_list) ==
    IF k > Len(EXPLICIT_FILES) THEN files_list
    ELSE IF Seen(files_list, EXPLICIT_FILES[k].path) \/ EXPLICIT_FILES[k].path \in EXCLUDE_FILES
    THEN ExplicitLoop(k + 1, files_list)
    ELSE ExplicitLoop(k + 1, Append(files_list, EXPLICIT_FILES[k]))

\* list.sort(key=path) is stable: an entry goes behind the entries whose
\* path is not greater
RECURSIVE InsertByPath(_, _, _)
InsertByPath(sorted, k, entry) ==
    IF k > Len(sorted) THEN Append(sorted, entry)
    ELSE IF StrLess(entry.path, sorted[k].path)
    THEN SubSeq(sorted, 1, k - 1) \o <<entry>> \o SubSeq(sorted, k, Len(sorted))
    ELSE InsertByPath(sorted, k + 1, entry)

RECURSIVE SortFrom(_, _, _)
SortFrom(files_list, k, sorted) ==
    IF k > Len(files_list) THEN sorted
    ELSE SortFrom(files_list, k + 1, InsertByPath(sorted, 1, files_list[k]))

\* what the sort is not: the list left in the order of the rules (C21
\* fails of it)
Unsorted(files_list) == files_list

\* line 131
SortByPath(files_list) == SortFrom(files_list, 1, <<>>)

\* lines 134-137
Missing(disk, files_list) ==
    SelectSeq([k \in 1..Len(files_list) |-> files_list[k].path],
              LAMBDA path : path \notin DiskEntries(disk))

\* lines 133-147: the end of collect_files with the sorted list
Collected(disk, check_exists, files_list) ==
    IF check_exists /\ Missing(disk, files_list) # <<>>
    THEN [outcome |-> "SystemExit", code |-> 1, files |-> <<>>,
          err |-> <<"ERROR: The following manifest files do not exist on disk:">>
                  \o Missing(disk, files_list)]
    ELSE [outcome |-> "ok", code |-> 0, files |-> files_list, err |-> <<>>]

collect_files(disk, check_exists) ==
    Collected(disk, check_exists, SortByPath(ExplicitLoop(1, RuleLoop(disk, 1, <<>>))))

\* the call ended as collected: the list returned, or sys.exit
CollectEnds(collected) ==
    /\ result' = collected.files
    /\ IF collected.outcome = "ok"
       THEN /\ pc' = "returned"
            /\ UNCHANGED <<exit_code, stdout, stderr>>
       ELSE Exit(collected.code, <<>>, collected.err)

CallCollectFiles ==
    /\ hook = MANIFEST /\ pc = "call"
    /\ CollectEnds(collect_files(arg.disk, arg.check_exists))
    /\ UNCHANGED <<merge_frame, arg, files, checked>>

ManifestNext == CallCollectFiles

\* the files a repository root may hold
DiskPaths ==
    {".claude/agents/a.md", ".claude/agents/B.md", ".claude/agents/notes.txt",
     ".claude/allowlists/sub/x.txt", ".claude/commands/go.md",
     "scripts/claude-hooks/h.py", "scripts/claude-hooks/p.regex",
     "roo/system2-pack.yml", "CLAUDE.md", "scripts/update-system2.sh",
     "scripts/update-system2-yaml.py", "scripts/generate-manifest.py"}

ManifestInit ==
    /\ hook = MANIFEST
    /\ pc = "call"
    /\ arg \in [disk : SUBSET DiskPaths, check_exists : BOOLEAN]
    /\ cwd = "/w"
    /\ result = <<>>
    /\ Idle

SpecManifest == ManifestInit /\ [][ManifestNext]_vars
(***************************************************************************)
(* check_sensitive_path called on its own, and called once more on the     *)
(* same path after the process changed its working directory               *)
(***************************************************************************)
SensPaths ==
    {"notes.txt", "a.pem", ".env", "src/main.py", "key", "d/x", "./id_rsa", "~/x",
     "/home/u/.aws/config", "id_rsa.pub"}

SensCwds == {"/w", "/srv", "/srv/secrets", "/home/u/.ssh"}

SensInit ==
    /\ hook = SFP
    /\ pc = "call"
    /\ arg \in SensPaths
    /\ cwd \in SensCwds
    /\ result = <<>>
    /\ Idle

\* result holds what the calls returned, in their order, each with the
\* working directory of the call
CallCheckSensitive ==
    /\ hook = SFP /\ pc = "call"
    /\ arg \in SensPaths
    /\ result' = Append(result, [cwd |-> cwd, verdict |-> check_sensitive_path(arg, cwd)])
    /\ pc' = "returned"
    /\ UNCHANGED <<hook, arg, cwd, main_vars>>

\* os.chdir between the two calls
Chdir ==
    /\ hook = SFP /\ pc = "returned"
    /\ arg \in SensPaths
    /\ Len(result) = 1
    /\ \E dir \in SensCwds \ {cwd} : cwd' = dir
    /\ pc' = "call"
    /\ UNCHANGED <<hook, arg, result, main_vars>>

SensNext == CallCheckSensitive \/ Chdir

SpecSens == SensInit /\ [][SensNext]_vars
(***************************************************************************)
(* extract_paths_from_bash_command called on its own, on the commands of   *)
(* up to MaxWords words                                                    *)
(***************************************************************************)
MaxWords == 3

CommandWords ==
    {"cat", "-rf", "./a", "~/x", "$HOME", "id_rsa", "'my", "b'", "\"-x/y\"", "a\\b",
     "--f=/e", ".env"}

RECURSIVE WordsJoined(_)
WordsJoined(k) ==
    IF k = 1 THEN CommandWords
    ELSE {c \o " " \o w : c \in WordsJoined(k - 1), w \in CommandWords}

BashCommands == UNION {WordsJoined(k) : k \in 1..MaxWords}

ExtractInit ==
    /\ hook = SFP
    /\ pc = "call"
    /\ arg \in BashCommands
    /\ cwd = "/w"
    /\ result = <<>>
    /\ Idle

CallExtractPaths ==
    /\ hook = SFP /\ pc = "call"
    /\ arg \in BashCommands
    /\ result' = extract_paths_from_bash_command(arg)
    /\ pc' = "returned"
    /\ UNCHANGED <<hook, arg, cwd, main_vars>>

ExtractNext == CallExtractPaths

SpecExtract == ExtractInit /\ [][ExtractNext]_vars
(***************************************************************************)
(* validate-file-paths.py: one invocation as a state machine               *)
(***************************************************************************)
VFP == "validate-file-paths"

\* what pattern.match is not: a match that may start anywhere in s (C30
\* fails of it)
MatchAnywhere(re, s) == Search(re, s)

\* pattern.match(s): the span of the match that starts at the start of s,
\* or NoMatch
Match(re, s) == SpanAt(1, M(re, s, 1))

\* validate-file-paths.load_patterns (lines 17-36): the filter and the
\* joining of _hook_utils.load_patterns, with diagnostics of its own
vfp_load_patterns(allowlist_file) ==
    LET f == Files[allowlist_file]
        patterns == EffectiveLines(f.lines, 1)
        compiled == [k \in 1..Len(patterns) |-> Compile(patterns[k])]
        combined == IF Len(patterns) = 1 THEN compiled[1] ELSE Alt(compiled)
    IN IF f.kind = "missing" THEN Raises("FileNotFoundError")
       ELSE IF f.kind = "unreadable" THEN Raises("OSError")
       ELSE IF f.kind = "undecodable" THEN Raises("UnicodeDecodeError")
       ELSE IF patterns = <<>> THEN SysExit(1, "allowlist file has no patterns")
       ELSE IF \E k \in 1..Len(compiled) : compiled[k] = Invalid
            THEN SysExit(1, "invalid allowlist regex")
       ELSE [outcome |-> "ok", re |-> combined, code |-> 0, err |-> ""]

\* lines 51-60: the path, the path without its leading ./, and the path
\* relative to the working directory when it is absolute
normalize_candidates(path, dir) ==
    Dedup(<<path>>
          \o (IF StartsWith(path, "./") THEN <<SubSeq(path, 3, Len(path))>> ELSE <<>>)
          \o (IF isabs(path) THEN <<relpath(path, dir)>> ELSE <<>>))

\* lines 82-86: a JSON string is a path itself; of any other value, the
\* strings under the path keys (collect_paths, lines 39-48, is the function
\* of _hook_utils)
vfp_paths(value) == IF value.t = "str" THEN <<value.s>> ELSE collect_paths(value)

\* lines 95-99: some candidate of the path is matched by the pattern
matched(pattern, path, dir) ==
    \E c \in 1..Len(normalize_candidates(path, dir)) :
        Match(pattern, normalize_candidates(path, dir)[c]) # NoMatch

NotAllowed(path, allowlist_file) ==
    "file path not allowed: " \o path \o " (allowlist: " \o allowlist_file \o ")"

\* lines 64-68
VfpCheckArgv ==
    /\ hook = VFP /\ pc = "check_argv"
    /\ IF Len(argv) < 1
       THEN /\ Exit(1, <<>>, <<"usage: validate-file-paths.py <allowlist-file>">>)
            /\ UNCHANGED allowlist_arg
       ELSE /\ allowlist_arg' = argv[1]
            /\ Goto("load_patterns", <<>>)
    /\ UNCHANGED <<inputs, sfp_locals, tool_name, payload, command, allowlist_pattern, checked>>

\* line 69
VfpLoadPatterns ==
    /\ hook = VFP /\ pc = "load_patterns"
    /\ LET loaded == vfp_load_patterns(allowlist_arg)
       IN CASE loaded.outcome = "ok" ->
                 /\ allowlist_pattern' = [loaded |-> TRUE, re |-> loaded.re]
                 /\ Goto("read_input", <<>>)
            [] loaded.outcome = "SystemExit" ->
                 /\ Exit(loaded.code, <<>>, <<loaded.err>>)
                 /\ UNCHANGED allowlist_pattern
            [] OTHER ->
                 /\ Uncaught(loaded.outcome)
                 /\ UNCHANGED allowlist_pattern
    /\ UNCHANGED <<inputs, sfp_locals, tool_name, payload, command, allowlist_arg, checked>>

\* lines 71-90: the payload and the paths in it
VfpReadInput ==
    /\ hook = VFP /\ pc = "read_input"
    /\ IF ~env_TOOL_INPUT.set
       THEN /\ Exit(1, <<>>, <<"TOOL_INPUT is not set">>)
            /\ UNCHANGED <<payload, paths_to_check>>
       ELSE IF env_TOOL_INPUT.json = "invalid"
       THEN /\ Exit(1, <<>>, <<"TOOL_INPUT is not valid JSON">>)
            /\ UNCHANGED <<payload, paths_to_check>>
       ELSE LET paths == vfp_paths(env_TOOL_INPUT.val)
            IN /\ payload' = env_TOOL_INPUT.val
               /\ paths_to_check' = [k \in 1..Len(paths) |-> JStr(paths[k])]
               /\ IF paths = <<>>
                  THEN Exit(1, <<>>, <<"no file paths found in TOOL_INPUT">>)
                  ELSE Goto("check_path", <<>>)
    /\ UNCHANGED <<inputs, dcb_locals, tool_name, command, additional_patterns, idx, checked>>

\* lines 92-107: one iteration of the loop over paths, or its end.  Every
\* element of paths is a string (line 93 skips nothing).
VfpCheckPath ==
    /\ hook = VFP /\ pc = "check_path"
    /\ IF idx > Len(paths_to_check)
       THEN /\ Exit(0, <<>>, <<>>)
            /\ UNCHANGED <<idx, checked>>
       ELSE /\ checked' = checked + 1
            /\ idx' = idx + 1
            /\ IF matched(allowlist_pattern.re, paths_to_check[idx].s, cwd)
               THEN Goto("check_path", <<>>)
               ELSE Exit(1, <<>>, <<NotAllowed(paths_to_check[idx].s, allowlist_arg)>>)
    /\ UNCHANGED <<inputs, dcb_locals, tool_name, payload, command, additional_patterns,
                   paths_to_check>>

VfpNext ==
    \/ VfpCheckArgv
    \/ VfpLoadPatterns
    \/ VfpReadInput
    \/ VfpCheckPath

VfpPaths ==
    {"build/out.o", "./build/a.txt", "/w/build/x", "notes.txt", ".secret", "a.secret",
     "lib/build/x", "build", ""}

VfpPayloads ==
    {JMap(<<>>),
     JNum(5),
     JStr("build/out.o"),
     JStr("notes.txt"),
     JList(<<JMap(<<<<"path", JStr("build/a")>>>>), JMap(<<<<"path", JStr(".txt")>>>>)>>),
     JMap(<<<<"file_path", JList(<<JStr("build/a")>>)>>>>),
     JMap(<<<<"content", JStr("build/a")>>>>),
     JMap(<<<<"File_Path", JStr("build/a")>>, <<"path", JStr("lib/b")>>,
            <<"file", JStr("src/c")>>>>),
     JMap(<<<<"file_path", JStr("src/c")>>, <<"path", JStr("lib/b")>>>>),
     JMap(<<<<"file_path", JStr("build/a")>>,
            <<"edits", JList(<<JMap(<<<<"target_file", JStr("./build/b")>>>>),
                               JMap(<<<<"filename", JStr("/w/build/c")>>>>)>>)>>>>),
     JMap(<<<<"file_path", JStr("build/a")>>,
            <<"nested", JMap(<<<<"path", JNum(5)>>, <<"file", JStr("x.txt")>>>>)>>,
            <<"filepath", JStr("y.txt")>>>>)}
    \cup {JMap(<<<<"file_path", JStr(f)>>>>) : f \in VfpPaths}

VfpArgvs ==
    {<<>>, <<"missing.txt">>, <<"locked.txt">>, <<"blob.bin">>, <<"empty.txt">>,
     <<"bad.txt">>, <<"mixed.txt">>, <<"tmp.txt">>, <<"extra.txt">>, <<"extra.txt", "tmp.txt">>}

VfpCwds == {"/w", "/srv"}

ValidateInit ==
    /\ hook = VFP
    /\ argv \in VfpArgvs
    /\ env_TOOL_NAME = SetTo("Write")
    /\ env_TOOL_INPUT \in ToolInputs(VfpPayloads)
    /\ cwd \in VfpCwds
    /\ pc = "check_argv"
    /\ tool_name = ""
    /\ payload = JNull
    /\ command = JNull
    /\ allowlist_arg = ""
    /\ allowlist_pattern = NoPattern
    /\ additional_patterns = <<>>
    /\ paths_to_check = <<>>
    /\ idx = 1
    /\ arg = ""
    /\ result = <<>>
    /\ exit_code = Running
    /\ stdout = <<>>
    /\ stderr = <<>>
    /\ checked = 0
    /\ host = NoHost
    /\ files = NoFiles

SpecValidate == ValidateInit /\ [][VfpNext]_vars
(***************************************************************************)
(* Properties of the hooks as processes (under Spec)                       *)
(***************************************************************************)
Exited == pc = "exited"

\* the command line is one parse_args accepts (the sensitive-file-protector
\* parses nothing)
ArgvAccepted ==
    hook = DCB =>
        /\ Len(argv) <= 1
        /\ \A k \in 1..Len(argv) : ~IsHelpFlag(argv[k]) /\ ~IsOptionLike(argv[k])

\* dangerous-command-blocker got as far as the allowlist: a Bash event with
\* a non-empty command
DcbHasCommand ==
    /\ hook = DCB /\ ArgvAccepted
    /\ env_TOOL_NAME = SetTo("Bash")
    /\ get_tool_input.ok
    /\ Truthy(DictGet(env_TOOL_INPUT.val, "command", JStr("")))

\* the command of the event, when it is a string
CommandText == DictGet(env_TOOL_INPUT.val, "command", JStr("")).s
CommandIsText == DictGet(env_TOOL_INPUT.val, "command", JStr("")).t = "str"

\* the allowlist file named on the command line loads, and one of its
\* patterns is found in the command
AllowlistHits ==
    /\ argv # <<>> /\ argv[1] # ""
    /\ load_patterns(argv[1]).outcome = "ok"
    /\ Search(load_patterns(argv[1]).re, CommandText) # NoMatch

\* C1: in dangerous-command-blocker, a Bash event with a non-empty command
\* that a loaded allowlist matches ends in allow (exit status 0, nothing on
\* stdout), whatever the danger classifier says of the command, and the
\* danger classifier has not run.
C1_AllowlistIsTerminal ==
    (Exited /\ DcbHasCommand /\ CommandIsText /\ AllowlistHits)
        => exit_code = 0 /\ stdout = <<>> /\ checked = 0

\* an allowlisted command that the danger classifier would block was allowed
C1_Witness ==
    /\ Exited /\ DcbHasCommand /\ CommandIsText /\ AllowlistHits
    /\ check_dangerous_pattern(CommandText).dangerous
    /\ exit_code = 0

\* the outcomes the contract names
IsBlock ==
    /\ exit_code = 2
    /\ Len(stdout) = 1
    /\ DOMAIN stdout[1] = {"decision", "reason"}
    /\ stdout[1].decision = "block"
IsAllow == exit_code = 0 /\ stdout = <<>>
IsError == exit_code = 1 /\ stdout = <<>>

\* C2: every invocation of a safety hook ends in exactly one of: block (one
\* block object on stdout, exit status 2), allow (exit status 0, nothing on
\* stdout), error (exit status 1, nothing on stdout).
C2_ThreeOutcomes == Exited => IsBlock \/ IsAllow \/ IsError

\* an invocation that ended with exit status 2 and no block object
C2_Failing == Exited /\ hook = DCB /\ exit_code = 2 /\ stdout = <<>>

\* the event descriptor is absent or cannot be parsed
DescriptorMissing == ~env_TOOL_NAME.set \/ ~get_tool_input.ok

\* C3: a safety hook whose event descriptor is absent or cannot be parsed
\* (TOOL_NAME or TOOL_INPUT unset, TOOL_INPUT no valid JSON or no JSON
\* object) ends with exit status 1 and a diagnostic on stderr, never in
\* allow.
C3_DescriptorErrorIsFatal ==
    (Exited /\ ArgvAccepted /\ DescriptorMissing)
        => exit_code = 1 /\ stderr # <<>>

\* dangerous-command-blocker allowed a command that was handed over with no
\* TOOL_NAME
C3_Failing ==
    /\ Exited /\ hook = DCB /\ ArgvAccepted
    /\ ~env_TOOL_NAME.set
    /\ get_tool_input.ok /\ CommandIsText
    /\ check_dangerous_pattern(CommandText).dangerous
    /\ exit_code = 0

\* the allowlist file named on the command line does not load
AllowlistFails ==
    /\ argv # <<>> /\ argv[1] # ""
    /\ load_patterns(argv[1]).outcome # "ok"

\* C4: in dangerous-command-blocker, when the allowlist file named on the
\* command line fails to load for whatever reason, the hook warns and
\* classifies the command as if no allowlist had been given: exit status 2
\* if it is dangerous and 0 if not, never 1.
C4_AllowlistIsOptional ==
    (Exited /\ DcbHasCommand /\ CommandIsText /\ AllowlistFails)
        => /\ stderr # <<>>
           /\ exit_code = IF check_dangerous_pattern(CommandText).dangerous THEN 2 ELSE 0

\* an allowlist that cannot be read ended the invocation with status 1
C4_Failing ==
    /\ Exited /\ DcbHasCommand /\ CommandIsText /\ AllowlistFails
    /\ exit_code = 1

\* the additional patterns the pattern file named on the command line gives
LoadedPatterns ==
    IF argv = <<>> THEN <<>> ELSE load_additional_patterns(argv[1]).patterns

\* some variant of the path is matched by a pattern of the pattern file
ExtraHit(path) ==
    \E c \in 1..Len(SensitiveCandidates(path, cwd)) : \E k \in 1..Len(LoadedPatterns) :
        Search(LoadedPatterns[k].re, SensitiveCandidates(path, cwd)[c]) # NoMatch

\* some variant of the path is matched by a built-in signature
BuiltinHit(path) ==
    \E c \in 1..Len(SensitiveCandidates(path, cwd)) :
        MatchesSensitive(SensitiveCandidates(path, cwd)[c])

BuiltinDescriptions ==
    {SENSITIVE_PATTERNS[k].description : k \in 1..Len(SENSITIVE_PATTERNS)}
CustomDescriptions ==
    {LoadedPatterns[k].description : k \in 1..Len(LoadedPatterns)}

\* the sensitive-file-protector classified the paths of the event, all of
\* them strings
SfpClassified ==
    /\ hook = SFP /\ Exited
    /\ paths_to_check # <<>>
    /\ \A k \in 1..Len(paths_to_check) : paths_to_check[k].t = "str"

\* the block object names path and a description of the set
BlocksWith(path, descriptions) ==
    /\ IsBlock
    /\ \E d \in descriptions :
          stdout[1].reason = "Blocked: Access to '" \o path \o "' is not allowed - " \o d

\* C5 (as the code has it): the pattern file of sensitive-file-protector
\* adds signatures, it allows nothing.  An event with a path that a pattern
\* of the file matches is blocked (exit status 2); the path blocked is named
\* with a built-in description if a built-in signature matches it, and with
\* "Custom pattern: <source>" only if none does.
C5_PatternFileBlocks ==
    SfpClassified =>
        /\ (\E k \in 1..Len(paths_to_check) : ExtraHit(paths_to_check[k].s)) => IsBlock
        /\ IsBlock =>
              LET path == paths_to_check[idx - 1].s
              IN IF BuiltinHit(path) THEN BlocksWith(path, BuiltinDescriptions)
                 ELSE ExtraHit(path) /\ BlocksWith(path, CustomDescriptions)

\* C5 as stated: a path that matches the pattern file is forced to allow.
C5_PatternFileAllows ==
    (SfpClassified /\ Len(paths_to_check) = 1 /\ ExtraHit(paths_to_check[1].s))
        => IsAllow

\* a path that only a pattern of the file matches was blocked
C5_Witness ==
    /\ SfpClassified /\ Len(paths_to_check) = 1
    /\ ExtraHit(paths_to_check[1].s) /\ ~BuiltinHit(paths_to_check[1].s)
    /\ BlocksWith(paths_to_check[1].s, CustomDescriptions)

(***************************************************************************)
(* The paths of a structured event                                         *)
(***************************************************************************)
RecognizedKeys == {"file_path", "filepath", "path", "target_file", "filename", "file"}

\* the positions of the values of a payload: the indices to follow from
\* the top
RECURSIVE Positions(_)
Positions(v) ==
    {<<>>} \cup UNION {{<<k>> \o q : q \in Positions(v.items[k].v)} : k \in 1..Len(v.items)}

RECURSIVE ItemAt(_, _)
\* the item [k, v] at a position that is not the top
ItemAt(v, pos) ==
    IF Len(pos) = 1 THEN v.items[pos[1]] ELSE ItemAt(v.items[pos[1]].v, Tail(pos))

RECURSIVE ValueAt(_, _)
ValueAt(v, pos) == IF pos = <<>> THEN v ELSE ValueAt(v.items[pos[1]].v, Tail(pos))

\* a string under a recognized key of a mapping, at any depth
PathPositions(v) ==
    {pos \in Positions(v) \ {<<>>} :
        /\ ValueAt(v, SubSeq(pos, 1, Len(pos) - 1)).t = "map"
        /\ ItemAt(v, pos).v.t = "str"
        /\ LowerStr(ItemAt(v, pos).k) \in RecognizedKeys}

\* position a comes before position b in the traversal
Before(a, b) ==
    \E n \in 1..Len(a) :
        /\ n <= Len(b)
        /\ SubSeq(a, 1, n - 1) = SubSeq(b, 1, n - 1)
        /\ a[n] < b[n]

RECURSIVE InTraversalOrder(_)
InTraversalOrder(S) ==
    IF S = {} THEN <<>>
    ELSE LET first == CHOOSE a \in S : \A b \in S \ {a} : Before(a, b)
         IN <<first>> \o InTraversalOrder(S \ {first})

\* the path strings of a payload in traversal order
Traversal(v) ==
    LET order == InTraversalOrder(PathPositions(v))
    IN [k \in 1..Len(order) |-> ItemAt(v, order[k]).v]

\* the elements of a sequence, each at its first occurrence only
FirstSeen(seq) ==
    LET keep == {k \in 1..Len(seq) : \A j \in 1..(k - 1) : seq[j] # seq[k]}
    IN [n \in 1..Cardinality(keep) |->
           seq[CHOOSE k \in keep : Cardinality({j \in keep : j < k}) = n - 1]]

\* the sensitive-file-protector extracted the paths of a structured event
SfpExtracted == hook = SFP /\ pc = "check_path" /\ tool_name # "Bash"

\* what Read, Edit and Write put first: the value of the top-level
\* file_path, when it is truthy
DirectFilePath ==
    IF tool_name \in {"Read", "Edit", "Write"}
       /\ Truthy(DictGet(payload, "file_path", JStr("")))
    THEN <<DictGet(payload, "file_path", JStr(""))>>
    ELSE <<>>

\* C10 (as the code has it): for a structured event the paths handed to
\* classification are, each at its first occurrence, the value of the
\* top-level file_path (Read, Edit and Write only, when truthy) and then the
\* strings under a recognized key in traversal order, at any depth.
C10_ExtractedPaths ==
    SfpExtracted => paths_to_check = FirstSeen(DirectFilePath \o Traversal(payload))

\* C10 as stated: the paths are the strings under a recognized key in
\* traversal order, each at its first occurrence.
C10_TraversalOrderOnly ==
    SfpExtracted => paths_to_check = FirstSeen(Traversal(payload))

\* a Read event whose file_path is not the first path of the traversal
C10_Witness ==
    /\ SfpExtracted
    /\ tool_name = "Read"
    /\ Len(paths_to_check) = 2
    /\ paths_to_check[1] = Traversal(payload)[2]
    /\ paths_to_check[2] = Traversal(payload)[1]

(***************************************************************************)
(* Properties of check_dangerous_pattern (under SpecDanger)                *)
(***************************************************************************)
Returned == pc = "returned"

\* the occurrences of signature p in str: every <<start, end>> the
\* signature matches at
Occurrences(p, str) ==
    UNION {{<<i, M(DANGER_PATTERNS[p].re, str, i)[n]>> :
               n \in 1..Len(M(DANGER_PATTERNS[p].re, str, i))} : i \in 1..(Len(str) + 1)}

\* the quoted literals of str that echo or printf precedes, whitespace
\* ignored
EchoLiterals(str) ==
    {q \in {FindIter(QUOTED_STRING_PATTERN, str)[n] :
               n \in 1..Len(FindIter(QUOTED_STRING_PATTERN, str))} :
        LET before == RStrip(SubSeq(str, 1, q[1] - 1))
        IN EndsWith(before, "echo") \/ EndsWith(before, "printf")}

\* a signature occurs in str, and every occurrence of every signature lies
\* in one of the echo literals
OnlyEchoed(str) ==
    /\ \E p \in 1..Len(DANGER_PATTERNS) : Occurrences(p, str) # {}
    /\ \A p \in 1..Len(DANGER_PATTERNS) : \A o \in Occurrences(p, str) :
          \E q \in EchoLiterals(str) : q[1] <= o[1] /\ o[2] <= q[2]

\* C6: a command in which every occurrence of a danger signature lies in a
\* quoted literal that echo or printf precedes is classified not dangerous,
\* whatever the literal holds.
C6_EchoLiteralsSuppressed ==
    (Returned /\ OnlyEchoed(arg)) => ~result.dangerous

\* a command of echoed occurrences only that was classified dangerous
C6_Failing == Returned /\ OnlyEchoed(arg) /\ result.dangerous

\* the strings check_dangerous_pattern tests: the full command, then its
\* segments trimmed, the empty ones left out
Segments(str) == SplitOn(str, {"|", ";", "&"})
TestedStrings(str) ==
    <<str>> \o SelectSeq([k \in 1..Len(Segments(str)) |-> Strip(Segments(str)[k])],
                         LAMBDA x : x # "")

\* the tested strings signature p fires on: the match search finds there is
\* not suppressed
FiresOn(p, str) ==
    {t \in 1..Len(TestedStrings(str)) : Fires(p, TestedStrings(str)[t])}

Firing(str) == {p \in 1..Len(DANGER_PATTERNS) : FiresOn(p, str) # {}}

Generated(path, dir) ==
    <<path>>
    \o (IF StartsWith(path, "./") THEN <<SubSeq(path, 3, Len(path))>> ELSE <<>>)
    \o (IF isabs(path) THEN <<relpath(path, dir)>> ELSE <<>>)
    \o (IF StartsWith(path, "~")
        THEN <<expanduser(path), relpath(expanduser(path), dir)>> ELSE <<>>)
    \o (IF realpath(path, dir) # path THEN <<realpath(path, dir)>> ELSE <<>>)

Elements(seq) == {seq[k] : k \in 1..Len(seq)}
FirstAt(seq, x) == MinOf({k \in 1..Len(seq) : seq[k] = x})

\* C8: normalize_path(p) has no duplicates, begins with p, and holds the
\* variants of p in the order they are generated: p without a leading ./,
\* the cwd-relative form of an absolute p, the home-expanded form and its
\* cwd-relative form when p starts with ~, and the real path when it
\* differs from p.  "./foo/bar" gives a list that begins with "./foo/bar"
\* and holds "foo/bar".
C8_VariantsInOrder ==
    Returned =>
        /\ \A i, j \in 1..Len(result) : result[i] = result[j] => i = j
        /\ result[1] = arg
        /\ Elements(result) = Elements(Generated(arg, cwd))
        /\ \A i, j \in 1..Len(result) :
              i < j => FirstAt(Generated(arg, cwd), result[i])
                         < FirstAt(Generated(arg, cwd), result[j])
        /\ arg = "./foo/bar" => "foo/bar" \in Elements(result)

\* a path with a variant generated twice
C8_Witness ==
    /\ Returned
    /\ Len(Generated(arg, cwd)) > Len(result)
    /\ Len(result) >= 2

\* an already-normalized relative path
NormalizedRelative(path) ==
    /\ path # ""
    /\ ~isabs(path) /\ ~StartsWith(path, "./") /\ ~StartsWith(path, "~")
    /\ normpath(path) = path

\* no directory on the way to path, nor path, is a symbolic link
NoSymlinks(path, dir) ==
    LET comps == NonEmptyComps(abspath(path, dir))
    IN \A k \in 1..Len(comps) : ("/" \o JoinComps(SubSeq(comps, 1, k))) \notin DOMAIN Symlinks

\* C9 (as the code has it): for an already-normalized relative path with
\* no symbolic links normalize_path returns two elements: the path, and its
\* absolute form under the working directory.
C9_RelativePathGetsAbsoluteForm ==
    (Returned /\ NormalizedRelative(arg) /\ NoSymlinks(arg, cwd))
        => result = <<arg, abspath(arg, cwd)>>

\* C9 as stated: such a path gives the one-element list [path].
C9_SingleElement ==
    (Returned /\ NormalizedRelative(arg) /\ NoSymlinks(arg, cwd))
        => result = <<arg>>

\* such a path, of two components
C9_Witness ==
    /\ Returned /\ NormalizedRelative(arg) /\ NoSymlinks(arg, cwd)
    /\ Len(NonEmptyComps(arg)) = 2
    /\ Len(result) = 2

(***************************************************************************)
(* C11  The pattern loader never yields an empty pattern set.              *)
(***************************************************************************)
\* a line that is a pattern: trimmed, it is not empty and its first
\* character is not #
IsPatternLine(line) == Strip(line) # "" /\ CharAt(Strip(line), 1) # "#"

NoPatternLine(f) == \A k \in 1..Len(f.lines) : ~IsPatternLine(f.lines[k])

PatternLinesOnly(f) == [kind |-> "file", lines |-> SelectSeq(f.lines, IsPatternLine)]

\* C11: load_patterns on a readable file none of whose lines is a pattern
\* (all blank or # comments after trimming) ends in sys.exit(1) after the
\* diagnostic "pattern file has no patterns" and yields no compiled
\* pattern; and blank and comment lines never count: the outcome on any
\* readable file is the outcome on the file with those lines removed.
C11_NoEmptyPatternSet ==
    (Returned /\ arg.kind = "file") =>
        /\ NoPatternLine(arg) =>
               /\ result.outcome = "SystemExit"
               /\ result.code = 1
               /\ result.err = "pattern file has no patterns"
               /\ result.re = Invalid
        /\ result.outcome = "ok" => ~NoPatternLine(arg) /\ result.re # Invalid
        /\ result = load_patterns_of(PatternLinesOnly(arg))

\* a file of comments and blank lines only has been loaded
C11_Witness ==
    /\ Returned
    /\ arg = [kind |-> "file", lines |-> <<"  # c  ", "", "   ">>]
    /\ result.outcome = "SystemExit" /\ result.code = 1

(***************************************************************************)
(* C12, C13  The informational hooks (under SpecPost).                     *)
(***************************************************************************)
\* TOOL_INPUT is absent or is not the JSON object get_tool_input wants
InputError == ~get_tool_input.ok

\* C12: auto-formatter and type-checker treat an absent or unparseable
\* TOOL_INPUT as pass-through: they start no external tool and exit with
\* status 0; and auto-formatter's main exits with status 0 whatever happens.
C12_InputErrorPassesThrough ==
    /\ (Exited /\ hook \in {AF, TC} /\ InputError) => (exit_code = 0 /\ checked = 0)
    /\ (Exited /\ hook = AF) => exit_code = 0

\* auto-formatter ended with status 1 because TOOL_INPUT is not set
C12_Failing ==
    /\ Exited /\ hook = AF
    /\ ~env_TOOL_INPUT.set
    /\ exit_code = 1
    /\ stderr = <<"TOOL_INPUT is not set">>
    /\ checked = 0

\* the hook (formatter or type checker) chose a tool for the file
ToolFor ==
    IF payload.t # "map" \/ file_path.t # "str" THEN None
    ELSE IF hook = AF
         THEN (IF host.exists THEN get_formatter_for_file(file_path.s) ELSE None)
         ELSE get_type_checker_for_file(file_path.s)

\* the collaborator fails: it is not in PATH, or running it raises (it cannot
\* be started, it times out, its output cannot be decoded), or it returns a
\* status other than 0
CollaboratorFails ==
    /\ ToolFor # None
    /\ \/ ~check_command_exists(ToolFor[1])
       \/ host.run.kind # "completed"
       \/ host.run.returncode # 0

Warned == \E k \in 1..Len(stderr) : Contains(stderr[k], "] WARN: ")

\* timeout, command not found and OS errors become (-1, "", message)
RunSubprocessConverts ==
    host.run.kind \in {"TimeoutExpired", "FileNotFoundError", "OSError"} =>
        /\ run_subprocess(ToolFor[2]).raises = ""
        /\ run_subprocess(ToolFor[2]).returncode = 0 - 1
        /\ run_subprocess(ToolFor[2]).stdout = ""
        /\ run_subprocess(ToolFor[2]).stderr # ""

\* C13: when the formatter or type checker is not found in PATH, cannot be
\* started, times out or returns a non-zero status, the hook logs a warning
\* and still exits with status 0; and run_subprocess turns a timeout, a
\* command that is not found and an OS error into (-1, "", message).
C13_CollaboratorFailureNotFatal ==
    (Exited /\ hook \in {AF, TC} /\ CollaboratorFails) =>
        /\ exit_code = 0
        /\ Warned
        /\ (hook = TC /\ checked = 1) => RunSubprocessConverts

\* the formatter returned status 2 and auto-formatter logged no warning
C13_Failing ==
    /\ Exited /\ hook = AF /\ checked = 1
    /\ host.run = Completed(2, "", "")
    /\ exit_code = 0
    /\ ~Warned

(***************************************************************************)
(* C14, C15  The extra sensitivity patterns (under Spec).                  *)
(***************************************************************************)
\* a pattern line that re.compile accepts
IsValidPatternLine(line) == IsPatternLine(line) /\ Compile(Strip(line)) # Invalid

\* the extra patterns a pattern file stands for: its valid pattern lines, in
\* file order, each with its description
ExtraPatternsOf(f) ==
    LET valid == SelectSeq(f.lines, IsValidPatternLine)
    IN [k \in 1..Len(valid) |->
           [re |-> Compile(Strip(valid[k])),
            description |-> "Custom pattern: " \o Strip(valid[k])]]

\* the warnings loading the file calls for: one for a file that cannot be
\* read, one for each pattern line that is no regular expression
WarningsDue(f) ==
    IF f.kind # "file" THEN 1
    ELSE Cardinality({k \in 1..Len(f.lines) :
                         IsPatternLine(f.lines[k]) /\ ~IsValidPatternLine(f.lines[k])})

WarningsIn(err) == Cardinality({k \in 1..Len(err) : StartsWith(err[k], "WARN: ")})

\* C14: loading the extra sensitivity patterns never aborts the
\* sensitive-file-protector: whatever the pattern file is (missing,
\* unreadable, with lines that are no regular expressions), the hook goes on
\* to read the event, a warning is logged for the file that cannot be read
\* and for each invalid line, the valid lines are kept in file order, and
\* with no valid line left the patterns are those of a run without a pattern
\* file (none).
C14_LoadingNeverAborts ==
    [][(SfpLoadAdditional /\ Len(argv) > 0) =>
          /\ pc' = "get_tool_input"
          /\ additional_patterns' = ExtraPatternsOf(Files[argv[1]])
          /\ WarningsIn(stderr') = WarningsDue(Files[argv[1]])]_vars

\* the pattern file is not UTF-8 text and the hook ended with a traceback
C14_Failing ==
    /\ Exited /\ hook = SFP
    /\ argv = <<"blob.bin">>
    /\ exit_code = 1
    /\ stderr = <<"Traceback: UnicodeDecodeError">>
    /\ stdout = <<>>

\* the path the loop of main is about to classify, and its variants
PathAtIdx == paths_to_check[idx].s
VariantsAtIdx == SensitiveCandidates(PathAtIdx, cwd)

\* the patterns (positions in the sequence) that match some variant
Hits(patterns, variants) ==
    {p \in 1..Len(patterns) :
        \E c \in 1..Len(variants) : Search(patterns[p].re, variants[c]) # NoMatch}

\* the variants (positions) that some pattern matches
HitVariants(patterns, variants) ==
    {c \in 1..Len(variants) :
        \E p \in 1..Len(patterns) : Search(patterns[p].re, variants[c]) # NoMatch}

\* the extra patterns of this run, as the pattern file gives them
ExtraPatterns == IF argv = <<>> THEN <<>> ELSE ExtraPatternsOf(Files[argv[1]])

\* the earliest pattern, in the given order, that matches the first variant
\* any of the patterns matches
EarliestExtra(patterns, variants) ==
    MinOf({p \in 1..Len(patterns) :
              Search(patterns[p].re, variants[MinOf(HitVariants(patterns, variants))])
                  # NoMatch})

BlockedFor(path, reason) ==
    /\ pc' = "exited" /\ exit_code' = 2
    /\ stdout' = <<BlockObject("Blocked: Access to '" \o path
                               \o "' is not allowed - " \o reason)>>

\* one classification of a path by the loop of main
Classifies ==
    SfpCheckPath /\ idx <= Len(paths_to_check) /\ paths_to_check[idx].t = "str"

\* C15: the classifier tests the built-in signatures before the extra
\* patterns.  If a built-in signature matches a variant of the path, the
\* reason is the description of a matching built-in signature, whatever the
\* extra patterns match.  The extra patterns decide only when no built-in
\* signature matches any variant: then the reason is "Custom pattern: "
\* followed by the source line (trimmed) of the earliest extra pattern, in
\* the order of the file, that matches the first variant an extra pattern
\* matches.  If nothing matches, the path is not sensitive and the loop goes
\* on without a block.
C15_BuiltinBeforeExtra ==
    [][Classifies =>
          IF Hits(SENSITIVE_PATTERNS, VariantsAtIdx) # {}
          THEN \E p \in Hits(SENSITIVE_PATTERNS, VariantsAtIdx) :
                   BlockedFor(PathAtIdx, SENSITIVE_PATTERNS[p].description)
          ELSE IF Hits(ExtraPatterns, VariantsAtIdx) # {}
          THEN BlockedFor(PathAtIdx,
                          ExtraPatterns[EarliestExtra(ExtraPatterns, VariantsAtIdx)].description)
          ELSE pc' = "check_path" /\ stdout' = <<>> /\ exit_code' = Running]_vars

\* build/secrets.txt, which the built-in "secrets" signature and two extra
\* patterns match, was blocked for the built-in reason
C15_Witness ==
    /\ Exited /\ hook = SFP /\ argv = <<"extra.txt", "tmp.txt">>
    /\ paths_to_check = <<JStr("build/secrets.txt")>>
    /\ Hits(ExtraPatterns, SensitiveCandidates("build/secrets.txt", cwd)) = {1, 2}
    /\ exit_code = 2
    /\ \E p \in 1..Len(SENSITIVE_PATTERNS) :
           stdout = <<BlockObject("Blocked: Access to 'build/secrets.txt' is not allowed - "
                                  \o SENSITIVE_PATTERNS[p].description)>>

(***************************************************************************)
(* C16  Forced push to main or master (under SpecPush).                    *)
(***************************************************************************)
ForceFlags == {"--force", "--force-with-lease", "-f"}
ProtectedBranches == {"main", "master"}
ForcePushReasons ==
    {"git push --force to main/master can destroy shared commit history",
     "git push -f to main/master can destroy shared commit history"}

\* the words of one command of a command line (a piece between ; | &)
WordsOf(piece) == str_split(piece)

\* the piece is a git push whose arguments hold a force flag and a protected
\* branch name, in whatever order
IsForcePush(words) ==
    /\ Len(words) >= 2 /\ words[1] = "git" /\ words[2] = "push"
    /\ \E i \in 3..Len(words) : words[i] \in ForceFlags
    /\ \E j \in 3..Len(words) : words[j] \in ProtectedBranches

HasForcePush(str) ==
    \E k \in 1..Len(Segments(str)) : IsForcePush(WordsOf(Segments(str)[k]))

DeleteReason == "DELETE FROM without WHERE clause would delete all rows in the table"

\* DELETE FROM <table>, in any letter case
DeleteFromTable ==
    Cat(<<WordB, LitI("DELETE"), Sp1, LitI("FROM"), Sp1, Plus(Chr(WordChars))>>)

\* the table name is followed, after optional whitespace, by the end of the
\* string, a semicolon or a pipe
EndsUnfiltered(str) ==
    Search(Cat(<<DeleteFromTable, Sp0, Alt(<<Eol(FALSE), Lit(";"), Lit("|")>>)>>), str)
        # NoMatch

\* the table name is followed by a WHERE clause
HasWhereClause(str) ==
    Search(Cat(<<DeleteFromTable, Sp1, LitI("WHERE"), WordB>>), str) # NoMatch

\* C17: a DELETE FROM <table> statement, in any letter case, is classified
\* dangerous exactly when the table name is followed, after optional
\* whitespace, by the end of the string, a semicolon or a pipe; one that is
\* followed by a WHERE clause is not classified dangerous.
C17_DeleteWithoutWhere ==
    Returned =>
        /\ result.dangerous <=> EndsUnfiltered(arg)
        /\ HasWhereClause(arg) => ~result.dangerous

\* a statement whose WHERE clause stands on the next line was classified
\* dangerous
C17_Failing ==
    /\ Returned
    /\ arg = "DELETE FROM users\nWHERE id=1"
    /\ HasWhereClause(arg)
    /\ ~EndsUnfiltered(arg)
    /\ result.dangerous
    /\ result.reason = DeleteReason

(***************************************************************************)
(* C18, C19, C20  The merge of mode packs (under SpecMerge).               *)
(***************************************************************************)
\* the customModes entries of the file at path: those of its list, none
\* when the file is no YAML mapping or customModes is no list
ModesAt(path) ==
    IF files[path].kind = "yaml" /\ files[path].data.t = "map"
       /\ DictGet(files[path].data, "customModes", JList(<<>>)).t = "list"
    THEN [k \in 1..Len(DictGet(files[path].data, "customModes", JList(<<>>)).items) |->
             DictGet(files[path].data, "customModes", JList(<<>>)).items[k].v]
    ELSE <<>>

IsMode(entry) == entry.t = "map"
HasSlug(entry) == IsMode(entry) /\ \E k \in 1..Len(entry.items) : entry.items[k].k = "slug"

\* the slugs the pack at path defines
SlugsAt(path) ==
    {DictGet(ModesAt(path)[k], "slug", JNull) :
        k \in {j \in 1..Len(ModesAt(path)) : HasSlug(ModesAt(path)[j])}}

\* the entry is a mode that the pack at path does not define
NotOfPack(entry, path) == IsMode(entry) /\ DictGet(entry, "slug", JNull) \notin SlugsAt(path)

\* the entry is not a mode with a slug the pack defines
NoSlugOfPack(entry, path) ==
    ~(HasSlug(entry) /\ DictGet(entry, "slug", JNull) \in SlugsAt(path))

\* a run of the script has ended with a merge written
MergeDone == hook = UPDATE /\ Exited /\ exit_code = 0 /\ checked >= 1

SlugSequence(modes) ==
    [k \in 1..Len(modes) |->
        IF HasSlug(modes[k]) THEN DictGet(modes[k], "slug", JNull) ELSE JNull]

\* the output of the first merge has been merged with the same pack
MergedTwice == hook = UPDATE /\ Exited /\ checked = 2

\* C19: merging the output of a successful merge with the same pack again
\* gives the same sequence of slugs and the same number of modes.
C19_MergeIdempotent ==
    MergedTwice =>
        /\ exit_code = 0
        /\ SlugSequence(ModesAt("merged2.yaml")) = SlugSequence(ModesAt("merged1.yaml"))
        /\ Len(ModesAt("merged2.yaml")) = Len(ModesAt("merged1.yaml"))

\* the pack has a mode without a slug, and the second output has one more
\* entry than the first
C19_Failing ==
    /\ MergedTwice /\ exit_code = 0
    /\ files["existing.yaml"].kind = "missing"
    /\ ModesAt("pack.yml") = <<Mode(JStr("a"), "new A"), Unnamed>>
    /\ ModesAt("merged1.yaml") = <<Mode(JStr("a"), "new A"), Unnamed>>
    /\ ModesAt("merged2.yaml") = <<Unnamed, Mode(JStr("a"), "new A"), Unnamed>>

\* the file at path is missing or cannot be parsed as a YAML mapping
NoMapping(path) == files[path].kind # "yaml" \/ files[path].data.t # "map"

\* the pack is missing, is no YAML mapping, has a customModes that is no
\* list, or has no mode with a slug
BadPack ==
    \/ NoMapping(arg.incoming)
    \/ DictGet(files[arg.incoming].data, "customModes", JList(<<>>)).t # "list"
    \/ \A k \in 1..Len(ModesAt(arg.incoming)) : ~HasSlug(ModesAt(arg.incoming)[k])

\* C20: with a pack that is missing, not a YAML mapping, without a
\* customModes list or without a mode that has a slug the merge ends with
\* exit status 3 and leaves every file as it is; with a good pack and an
\* existing file that is missing or cannot be parsed the merge goes through
\* as for an empty customModes list.
C20_BadPackAborts ==
    [][CallMergeModes =>
          /\ BadPack => (exit_code' = 3 /\ files' = files)
          /\ (~BadPack /\ NoMapping(arg.existing)
              /\ \A k \in 1..Len(ModesAt(arg.incoming)) :
                    Hashable(DictGet(ModesAt(arg.incoming)[k], "slug", JNull)))
             => (exit_code' = 0
                 /\ files'[arg.output].kind = "yaml"
                 /\ DictGet(files'[arg.output].data, "customModes", JNull)
                        = DictGet(files[arg.incoming].data, "customModes", JNull))]_vars

\* the pack is not UTF-8 text and the script ended with a traceback and
\* exit status 1
C20_Failing ==
    /\ hook = UPDATE /\ Exited /\ checked = 1
    /\ files["pack.yml"].kind = "undecodable"
    /\ exit_code = 1
    /\ stderr = <<"Traceback: UnicodeDecodeError">>
    /\ files["merged1.yaml"] \in {OtherFile("missing"), OldOutput}

(***************************************************************************)
(* C21  The manifest file list (under SpecManifest).                       *)
(***************************************************************************)
\* the rules whose pattern the path matches
MatchingRules(path) ==
    {r \in 1..Len(FILE_RULES) : PathMatches(path, FILE_RULES[r].pattern)}

ExplicitPaths == {EXPLICIT_FILES[k].path : k \in 1..Len(EXPLICIT_FILES)}

\* the paths a manifest of the root lists
ManifestPaths ==
    ({e \in DiskEntries(arg.disk) : MatchingRules(e) # {}} \ EXCLUDE_FILES) \cup ExplicitPaths

\* the entry has the path and the metadata of the rule or the explicit entry
FromRule(entry, rule) ==
    /\ entry.platform = rule.platform
    /\ entry.scope = rule.scope
    /\ entry.validation = rule.validation

\* C21: the list collect_files returns has every path at most once, is
\* sorted ascending by path, has no path of EXCLUDE_FILES, has every path of
\* EXPLICIT_FILES whether it is on disk or not, and an entry whose path
\* matches rules has the metadata of the first of them; with check_exists
\* the call exits with status 1 if a listed path is not on disk (and
\* returns otherwise).
C21_ManifestList ==
    (hook = MANIFEST /\ pc # "call") =>
        /\ (arg.check_exists /\ ManifestPaths \ DiskEntries(arg.disk) # {})
               => (pc = "exited" /\ exit_code = 1)
        /\ ~(arg.check_exists /\ ManifestPaths \ DiskEntries(arg.disk) # {})
               => pc = "returned"
        /\ pc = "returned" =>
              /\ \A i, j \in 1..Len(result) : i < j => StrLess(result[i].path, result[j].path)
              /\ \A i \in 1..Len(result) : result[i].path \notin EXCLUDE_FILES
              /\ {result[i].path : i \in 1..Len(result)} = ManifestPaths
              /\ \A i \in 1..Len(result) :
                    IF MatchingRules(result[i].path) # {}
                    THEN FromRule(result[i], FILE_RULES[MinOf(MatchingRules(result[i].path))])
                    ELSE result[i] \in {EXPLICIT_FILES[k] : k \in 1..Len(EXPLICIT_FILES)}

\* a root without the explicit files and with the excluded script: both
\* explicit files are listed, the script is not, and CLAUDE.md of the last
\* rule is listed behind the agents and before the scripts
C21_Witness ==
    /\ hook = MANIFEST /\ pc = "returned"
    /\ arg.disk = {".claude/agents/a.md", ".claude/agents/B.md", "CLAUDE.md",
                   "scripts/claude-hooks/h.py", "scripts/generate-manifest.py"}
    /\ [i \in 1..Len(result) |-> result[i].path]
           = <<".claude/agents/B.md", ".claude/agents/a.md", "CLAUDE.md",
               "scripts/claude-hooks/h.py", "scripts/update-system2-yaml.py",
               "scripts/update-system2.sh">>

(***************************************************************************)
(* C22  Occurrences behind a suppressed one (under SpecDanger).            *)
(***************************************************************************)
\* an occurrence of signature p in the tested string str that lies in no
\* quoted literal that echo or printf precedes
OutsideEcho(p, str) ==
    {o \in Occurrences(p, str) :
        ~\E q \in EchoLiterals(str) : q[1] <= o[1] /\ o[2] <= q[2]}

\* C22: a command one of whose tested strings (the full command and the
\* segments) holds an occurrence of a signature outside every quoted literal
\* that echo or printf precedes is classified dangerous, also when an
\* earlier occurrence of that signature in the string is suppressed.
C22_EveryOccurrenceChecked ==
    (Returned /\ \E p \in 1..Len(DANGER_PATTERNS) : \E t \in 1..Len(TestedStrings(arg)) :
                    OutsideEcho(p, TestedStrings(arg)[t]) # {})
        => result.dangerous

\* the first occurrence is in the echoed literal, the second one is not,
\* and the command is classified not dangerous
C22_Failing ==
    /\ Returned
    /\ arg = "echo \"git reset --hard\" git reset --hard"
    /\ OutsideEcho(6, arg) = {<<25, 41>>}
    /\ Cardinality(Occurrences(6, arg)) = 2
    /\ ~result.dangerous

(***************************************************************************)
(* C23, C28  The sensitivity classifier on its own (under SpecSens).       *)
(***************************************************************************)
\* a call of check_sensitive_path has returned; Verdict is what the last
\* call returned
Classified == hook = SFP /\ pc = "returned" /\ arg \in SensPaths /\ Len(result) >= 1
Verdict == result[Len(result)].verdict
Variants == SensitiveCandidates(arg, cwd)

\* the built-in signatures that match the variant
SignaturesOf(variant) ==
    {p \in 1..Len(SENSITIVE_PATTERNS) : Search(SENSITIVE_PATTERNS[p].re, variant) # NoMatch}

\* the variants of the path that some built-in signature matches
MatchedVariants == {c \in 1..Len(Variants) : SignaturesOf(Variants[c]) # {}}

\* C23 (amended): candidate order takes precedence over pattern order.  The
\* path is sensitive exactly when a built-in signature matches one of its
\* variants, and the reason is then that of the earliest signature, in the
\* order of SENSITIVE_PATTERNS, among those that match the first variant
\* any signature matches.
C23_CandidateOrderFirst ==
    Classified =>
        IF MatchedVariants = {}
        THEN ~Verdict.sensitive /\ Verdict.reason = ""
        ELSE /\ Verdict.sensitive
             /\ Verdict.reason
                    = SENSITIVE_PATTERNS[
                          MinOf(SignaturesOf(Variants[MinOf(MatchedVariants)]))].description

\* C23 as stated: the reason is that of the earliest signature, in the
\* order of SENSITIVE_PATTERNS, that matches any variant of the path.
C23_PatternOrderFirst ==
    (Classified /\ MatchedVariants # {}) =>
        /\ Verdict.sensitive
        /\ Verdict.reason
               = SENSITIVE_PATTERNS[
                     MinOf(UNION {SignaturesOf(Variants[c]) : c \in MatchedVariants})].description

\* a.pem below /srv/secrets: the path itself matches the PEM signature only,
\* its real path matches the earlier "secrets" signature too, and the reason
\* is the PEM one
C23_Witness ==
    /\ Classified
    /\ arg = "a.pem" /\ cwd = "/srv/secrets"
    /\ Variants = <<"a.pem", "/srv/secrets/a.pem">>
    /\ SignaturesOf(Variants[1]) = {8}
    /\ SignaturesOf(Variants[2]) = {7, 8}
    /\ Verdict.reason = "PEM certificate/key file (*.pem)"

\* the path is relative and no symbolic link lies on it in the directory
RelativeNoSymlinks(path, dir) ==
    ~isabs(path) /\ ~StartsWith(path, "~") /\ NoSymlinks(path, dir)

\* check_sensitive_path was called twice on the path, in two working
\* directories
ClassifiedTwice == Classified /\ Len(result) = 2

\* C28: two calls of check_sensitive_path on the same relative path without
\* symbolic links that differ in the working directory only return the same
\* (sensitive, reason).
C28_VerdictIndependentOfCwd ==
    (ClassifiedTwice /\ RelativeNoSymlinks(arg, result[1].cwd)
                     /\ RelativeNoSymlinks(arg, result[2].cwd))
        => /\ result[1].verdict.sensitive = result[2].verdict.sensitive
           /\ result[1].verdict.reason = result[2].verdict.reason

\* notes.txt is not sensitive in /w and sensitive in /srv/secrets, where
\* its real path holds "secrets"
C28_Failing ==
    /\ ClassifiedTwice
    /\ arg = "notes.txt"
    /\ RelativeNoSymlinks(arg, "/w") /\ RelativeNoSymlinks(arg, "/srv/secrets")
    /\ result[1] = [cwd |-> "/w", verdict |-> NotSensitive]
    /\ result[2].cwd = "/srv/secrets"
    /\ result[2].verdict.sensitive
    /\ result[2].verdict.reason = "File containing 'secrets'"

(***************************************************************************)
(* C24  The loop over the extracted paths (under Spec).                    *)
(***************************************************************************)
\* the sensitive-file-protector ended after it had read its pattern file
\* and the event
SfpDecided ==
    /\ hook = SFP /\ Exited
    /\ get_tool_input.ok
    /\ (argv # <<>> => load_additional_patterns(argv[1]).outcome = "ok")

\* the paths extracted from the event, each at its first occurrence
EventPaths ==
    IF get_tool_name = "Bash"
    THEN IF DictGet(env_TOOL_INPUT.val, "command", JStr("")).t = "str"
         THEN FirstSeen([k \in 1..Len(extract_paths_from_bash_command(
                                          DictGet(env_TOOL_INPUT.val, "command", JStr("")).s))
                            |-> JStr(extract_paths_from_bash_command(
                                         DictGet(env_TOOL_INPUT.val, "command", JStr("")).s)[k])])
         ELSE <<>>
    ELSE FirstSeen((IF get_tool_name \in {"Read", "Edit", "Write"}
                       /\ Truthy(DictGet(env_TOOL_INPUT.val, "file_path", JStr("")))
                    THEN <<DictGet(env_TOOL_INPUT.val, "file_path", JStr(""))>>
                    ELSE <<>>) \o Traversal(env_TOOL_INPUT.val))

\* what the classifier says of the k-th extracted path; a value that is no
\* string is no sensitive path
VerdictOn(k) ==
    IF EventPaths[k].t = "str"
    THEN check_sensitive_path_with_additional(EventPaths[k].s, LoadedPatterns, cwd)
    ELSE NotSensitive

SensitiveAt == {k \in 1..Len(EventPaths) : VerdictOn(k).sensitive}

\* C24: the hook classifies the extracted paths in their first-seen order
\* and stops at the first sensitive one: it blocks with a reason that names
\* that path and its description, after as many classifications as the
\* position of that path; it allows (exit status 0) exactly when no
\* extracted path is sensitive or there is none.
C24_FirstSensitivePathBlocks ==
    SfpDecided =>
        IF SensitiveAt = {}
        THEN IsAllow
        ELSE /\ IsBlock
             /\ stdout[1].reason
                    = "Blocked: Access to '" \o EventPaths[MinOf(SensitiveAt)].s
                      \o "' is not allowed - " \o VerdictOn(MinOf(SensitiveAt)).reason
             /\ checked = MinOf(SensitiveAt)

\* a Read event with file_path 5 and path ".env": the hook ended with a
\* traceback and exit status 1 before ".env" was classified
C24_Failing ==
    /\ SfpDecided
    /\ tool_name = "Read"
    /\ EventPaths = <<JNum(5), JStr(".env")>>
    /\ SensitiveAt = {2}
    /\ exit_code = 1 /\ stdout = <<>>
    /\ stderr[Len(stderr)] = "Traceback: AttributeError"
    /\ checked = 0

(***************************************************************************)
(* C25  The paths of a Bash command (under SpecExtract).                   *)
(***************************************************************************)
Extracted == hook = SFP /\ pc = "returned" /\ arg \in BashCommands

\* the tokens of the command: those of the shell lexer, or the runs of
\* non-whitespace when the lexer fails
TokensOf(cmd) == IF shlex_split(cmd).ok THEN shlex_split(cmd).tokens ELSE str_split(cmd)

\* the command has no quote and no backslash
Unquoted(cmd) == \A i \in 1..Len(cmd) : CharAt(cmd, i) \notin {"'", "\"", "\\"}

\* the command has an odd number of single quotes and no other quoting
OneQuoteOpen(cmd) ==
    /\ \A i \in 1..Len(cmd) : CharAt(cmd, i) \notin {"\"", "\\"}
    /\ Cardinality({i \in 1..Len(cmd) : CharAt(cmd, i) = "'"}) % 2 = 1

\* the token is no flag and looks like a path
IsCandidate(token) ==
    /\ SubSeq(token, 1, 1) # "-"
    /\ \/ Contains(token, "/")
       \/ Contains(token, "\\")
       \/ SubSeq(token, 1, 1) \in {"~", ".", "$"}
       \/ \E p \in 1..Len(SENSITIVE_PATTERNS) : Search(SENSITIVE_PATTERNS[p].re, token) # NoMatch

\* C25: extract_paths_from_bash_command returns, in token order, exactly
\* the tokens of the command that do not start with - and that hold / or \,
\* start with ~, . or $, or match a built-in signature.  The tokens are
\* those of the shell lexer; when the lexer fails on an unclosed quote they
\* are the runs of non-whitespace of the command, and nothing is raised.
C25_PathTokens ==
    Extracted =>
        /\ result = SelectSeq(TokensOf(arg), IsCandidate)
        /\ \A k \in 1..Len(result) : SubSeq(result[k], 1, 1) # "-"
        /\ Unquoted(arg) => shlex_split(arg).ok /\ TokensOf(arg) = str_split(arg)
        /\ OneQuoteOpen(arg) => ~shlex_split(arg).ok /\ TokensOf(arg) = str_split(arg)

\* the quote of 'my is never closed: the tokens are the words as they
\* stand, the flag is left out, and the bare word id_rsa is a path
C25_Witness ==
    /\ Extracted
    /\ arg = "'my --f=/e id_rsa"
    /\ ~shlex_split(arg).ok
    /\ TokensOf(arg) = <<"'my", "--f=/e", "id_rsa">>
    /\ result = <<"id_rsa">>

(***************************************************************************)
(* C26  The shape of the merged file (under SpecMerge).                    *)
(***************************************************************************)
\* C26: after a successful merge the output file is a YAML mapping whose
\* customModes is a list of mappings that each have a slug key.
C26_OutputModesHaveSlugs ==
    MergeDone =>
        /\ files[arg.output].kind = "yaml"
        /\ files[arg.output].data.t = "map"
        /\ DictGet(files[arg.output].data, "customModes", JNull).t = "list"
        /\ \A k \in 1..Len(ModesAt(arg.output)) : HasSlug(ModesAt(arg.output)[k])

\* the pack holds a string besides a mode, the existing file a mode without
\* a slug: both are in the output of the first merge
C26_Failing ==
    /\ MergeDone /\ checked = 1
    /\ ModesAt("existing.yaml") = <<Unnamed>>
    /\ ModesAt("pack.yml") = <<Mode(JStr("b"), "B"), JStr("note")>>
    /\ ModesAt("merged1.yaml") = <<Unnamed, Mode(JStr("b"), "B"), JStr("note")>>
    /\ ~IsMode(ModesAt("merged1.yaml")[3])
    /\ ~HasSlug(ModesAt("merged1.yaml")[1])

(***************************************************************************)
(* C27, C29  Exit status 2 and the allowlist of dangerous-command-blocker  *)
(* (under Spec).                                                           *)
(***************************************************************************)
\* C27: every run of dangerous-command-blocker that ends with exit status 2
\* has written one block object to stdout, whatever the command line and
\* the environment.
C27_ExitTwoMeansBlock ==
    (hook = DCB /\ Exited /\ exit_code = 2) => IsBlock

\* two positional arguments with a harmless Bash command: exit status 2
\* from the argument parser, nothing on stdout, nothing classified
C27_Failing ==
    /\ hook = DCB /\ Exited
    /\ argv = <<"tmp.txt", "two.txt">>
    /\ env_TOOL_NAME = SetTo("Bash")
    /\ env_TOOL_INPUT.val = JMap(<<<<"command", JStr("ls")>>>>)
    /\ exit_code = 2 /\ ~IsBlock
    /\ stderr = <<"usage", "error: unrecognized arguments">>
    /\ checked = 0

\* the allowlist of the run is loaded
AllowlistLoaded ==
    argv # <<>> /\ argv[1] # "" /\ load_patterns(argv[1]).outcome = "ok"

\* the segments of the command that the allowlist matches when searched in
\* them alone
AllowlistedSegments ==
    {k \in 1..Len(Segments(CommandText)) :
        Search(load_patterns(argv[1]).re, Strip(Segments(CommandText)[k])) # NoMatch}

\* C29: the allowlist is searched once, in the whole command.  If it
\* matches anywhere in it, the command is allowed and the danger classifier
\* does not run on it or on any segment; if it does not match the whole
\* command, the whole command is danger-classified once and that verdict
\* decides, also when the allowlist would match a segment taken alone.
C29_AllowlistOnWholeCommand ==
    (Exited /\ DcbHasCommand /\ CommandIsText /\ AllowlistLoaded) =>
        IF Search(load_patterns(argv[1]).re, CommandText) # NoMatch
        THEN IsAllow /\ checked = 0
        ELSE /\ checked = 1
             /\ IF check_dangerous_pattern(CommandText).dangerous
                THEN IsBlock /\ stdout[1].reason
                                   = "Blocked: " \o check_dangerous_pattern(CommandText).reason
                ELSE IsAllow

\* "ls; rm -rf /" with the allowlist ^ls$: the segment ls is allowlisted on
\* its own, the whole command is not, and the command is blocked
C29_Witness ==
    /\ Exited /\ DcbHasCommand /\ CommandIsText /\ AllowlistLoaded
    /\ argv = <<"two.txt">>
    /\ CommandText = "ls; rm -rf /"
    /\ AllowlistedSegments = {1}
    /\ Search(load_patterns(argv[1]).re, CommandText) = NoMatch
    /\ IsBlock /\ checked = 1

(***************************************************************************)
(* C30  validate-file-paths is fail-closed (under SpecValidate).           *)
(***************************************************************************)
\* the allowlist argument names a file that load_patterns compiles
VfpLoaded == argv # <<>> /\ vfp_load_patterns(argv[1]).outcome = "ok"

\* TOOL_INPUT is set and is valid JSON
VfpInputOk == env_TOOL_INPUT.set /\ env_TOOL_INPUT.json = "ok"

\* the paths of the event, in extraction order
VfpExtracted == IF VfpInputOk THEN vfp_paths(env_TOOL_INPUT.val) ELSE <<>>

\* the original path, the path without its leading ./, and the absolute
\* path relative to the working directory
CandidateSet(path) ==
    {path}
    \cup (IF StartsWith(path, "./") THEN {SubSeq(path, 3, Len(path))} ELSE {})
    \cup (IF isabs(path) THEN {relpath(path, cwd)} ELSE {})

\* the leftmost match of the allowlist in the string starts at its start
MatchesFromStart(str) ==
    LET span == Search(vfp_load_patterns(argv[1]).re, str)
    IN span # NoMatch /\ span[1] = 1

\* the positions of the extracted paths of which no candidate is matched
\* from the start
VfpRefused ==
    IF VfpLoaded
    THEN {k \in 1..Len(VfpExtracted) :
            \A c \in CandidateSet(VfpExtracted[k]) : ~MatchesFromStart(c)}
    ELSE {}

\* C30: validate-file-paths writes nothing to stdout and ends with status 0
\* or 1.  It ends with 0 only if the allowlist was loaded, TOOL_INPUT is set
\* and valid JSON, at least one path was extracted and every extracted path
\* has a candidate (original, ./-stripped, cwd-relative) that the allowlist
\* matches from the start of the string.  No allowlist argument, a missing
\* or invalid TOOL_INPUT, no path, or one path without such a candidate
\* gives status 1, and the path reported is the first such path in
\* extraction order.
C30_FailClosed ==
    (hook = VFP /\ Exited) =>
        /\ stdout = <<>>
        /\ exit_code \in {0, 1}
        /\ exit_code = 0 =>
              /\ VfpLoaded /\ VfpInputOk
              /\ VfpExtracted # <<>>
              /\ VfpRefused = {}
        /\ (argv = <<>> \/ ~VfpInputOk \/ VfpExtracted = <<>> \/ VfpRefused # {}) =>
              exit_code = 1
        /\ (VfpLoaded /\ VfpRefused # {}) =>
              stderr = <<"file path not allowed: " \o VfpExtracted[MinOf(VfpRefused)]
                         \o " (allowlist: " \o argv[1] \o ")">>

\* three paths, the second and the third not allowed: the run ends with
\* status 1 at the second and reports it
C30_Witness ==
    /\ hook = VFP /\ Exited
    /\ argv = <<"extra.txt">>
    /\ VfpExtracted = <<"build/a", "lib/b", "src/c">>
    /\ VfpRefused = {2, 3}
    /\ exit_code = 1
    /\ stderr = <<"file path not allowed: lib/b (allowlist: extra.txt)">>
    /\ checked = 2

=============================================================================
